---- MODULE Spec2Model ----
(***************************************************************************)
(* Model of the real-time call-processing core of the disaster call        *)
(* processor (src/app): the summary store with optimistic locking, the     *)
(* debounced summary coordinator, and the connection registry with the     *)
(* per-connection receive loop and chunk aggregation.                      *)
(*                                                                         *)
(* asyncio is cooperative: code between two awaits that suspend runs       *)
(* atomically, so there is one action per suspension point.                *)
(***************************************************************************)
EXTENDS Integers, Sequences, FiniteSets, TLC

(***************************************************************************)
(* Bounds and program constants                                            *)
(***************************************************************************)
NumWriters == 3        \* processes writing the shared summary document
MaxStoredVersion == 2  \* highest version of a summary left by an earlier run
MaxRetries == 3        \* update_with_retry(max_retries=3)
NumTasks == 3          \* tasks that call _schedule_summary_update
MaxCalls == 2          \* calls of _schedule_summary_update made by one task
MaxMsgs == 4           \* inbound messages received over all connections
ChunkBufferSize == 3   \* Settings.chunk_buffer_size
MaxApiRetries == 3     \* _call_api(max_retries=3)
NotesPrefix == 500     \* response[:500] in the degraded ExtractedInfo
NumAcquirers == 4      \* tasks that call RateLimiter.acquire
RequestsPerMinute == 2 \* Settings.claude_rate_limit_rpm of the modelled run
TokenUnit == 2         \* units of bucket content in one token
MaxTime == 4           \* ticks of the clock
NumLockTasks == 3      \* tasks that take locks

\* The tasks of one kind the event loop can hold for one client at a time.
MaxLoops == 3

\* max_reconnect_attempts of the client (10 in the source).
MaxReconnectAttempts == 2

Writers == 1..NumWriters
Tasks == 1..NumTasks

NoDoc == [version |-> 0, narrative |-> 0, totals |-> 0, exists |-> FALSE]

VARIABLES
  stored,      \* summaries collection: the document with summary_id "current", or NoDoc
  wpc,         \* writer -> position inside update_with_retry / get / update
  wcurrent,    \* writer -> `current`, the document read by get()
  wattempt,    \* writer -> `attempt` of the retry loop
  wresult,     \* writer -> outcome of its update_with_retry call
  casLog,      \* history: the find_one_and_update calls made, with their outcome
  pending_summary_update,  \* CallProcessor._pending_summary_update
  tpc,         \* task -> position inside _schedule_summary_update
  tcalls,      \* task -> calls of _schedule_summary_update it has made
  window,      \* history of the current debounce window: calls, timers, recomputes
  connections, \* ConnectionManager._connections: person_id -> Connection (by its socket)
  lock,        \* ConnectionManager._lock: the handler task that holds it
  sock,        \* websocket -> "new", "open" or "closed"
  chunk_buffer,    \* Connection.chunk_buffer of the Connection made for each socket
  last_heartbeat,  \* Connection.last_heartbeat: set at "connect" or by a "heartbeat"
  records,     \* persons collection: person_id -> PersonRecord
  hpc,         \* websocket_endpoint task of each socket: its suspension point
  frame,       \* the locals of that task: message, conn, full_transcript,
               \* and (history) the extract_info calls made for the message
  sent,        \* the unicast made by the last step: type, sending task, receiving socket
  msgs,        \* history: inbound messages received so far
  upc,         \* the _update_summary call: its suspension point
  upersons,    \* its `persons`: the records with extracted info it read
  ucurrent,    \* its `current_summary`
  uupdated,    \* its `updated_summary`, the object update_with_retry is given
  uexpected,   \* `current.version` read by the update_with_retry loop it runs
  uattempt,    \* `attempt` of that loop
  ulog,        \* history of the call: how summarize and the CAS ended, broadcasts begun
  bremaining,  \* broadcast(): connections of the snapshot not yet sent to
  bcount,      \* broadcast(): `sent`, the successful sends
  blog,        \* history of the broadcast: snapshot, message, send attempts per connection
  tokens,      \* RateLimiter.tokens, in units
  last_update, \* RateLimiter.last_update, in ticks
  clock,       \* time.monotonic(), in ticks
  rate_lock,   \* RateLimiter._lock: the acquirer that holds it
  apc,         \* acquirer -> position inside acquire()
  awake,       \* acquirer -> the tick its asyncio.sleep is due
  acquired,    \* history: acquire() calls that have returned
  gpc,         \* the extract_info call: its suspension point
  gattempt,    \* `attempt` of the loop in _call_api
  goutcomes,   \* history: what the provider did with each request
  gwaits,      \* history: the backoff sleeps, in seconds
  gapi,        \* how _call_api ended: "none", "returned" or "raised"
  gresponse,   \* `response`, the text _call_api returned
  gresult,     \* how extract_info ended
  gacquires,   \* history: acquire() calls made by _call_api
  holder,      \* lock -> the task that holds it
  lkpc,        \* task -> where it stands with respect to the locks
  sweep,       \* the heartbeat monitor: position, locals and history of a sweep
  sres,        \* history: the outcome of the last send_to_person call
  ucall,       \* the _schedule_summary_update call whose _update_summary runs
  changes,     \* history: the changes persisted to caller records, and by whom
  covered,     \* history: person_id -> the chunks of the record that were in the
               \* transcript of an extract_info call
  state,       \* DisasterCallClient._state
  running,     \* DisasterCallClient._running
  ws,          \* DisasterCallClient._ws: "none", or how its connection stands
  reconnect_attempts, \* DisasterCallClient._reconnect_attempts
  heartbeat_task,     \* DisasterCallClient._heartbeat_task: a task slot
  receive_task,       \* DisasterCallClient._receive_task: a task slot
  rxloop,      \* task slot -> position of the _receive_loop task in it
  hbloop,      \* task slot -> position of the _heartbeat_loop task in it
  mpc          \* the application's call into the client: its suspension point

casVars == <<stored, wpc, wcurrent, wattempt, wresult, casLog>>
coordVars == <<pending_summary_update, tpc, tcalls, window>>
taskVars == <<tpc, tcalls, window>>
connVars == <<connections, lock, sock, chunk_buffer, last_heartbeat, records,
              hpc, frame, sent, msgs>>

cycleVars == <<upc, upersons, ucurrent, uupdated, uexpected, uattempt, ulog>>
broadcastVars == <<bremaining, bcount, blog>>
limiterVars == <<tokens, last_update, clock, rate_lock, apc, awake, acquired>>
gatewayVars == <<gpc, gattempt, goutcomes, gwaits, gapi, gresponse, gresult,
                 gacquires>>
lockVars == <<holder, lkpc>>
registryVars == <<sweep, sres>>
debounceVars == <<ucall, changes>>
wsClientVars == <<state, running, ws, reconnect_attempts, heartbeat_task,
                  receive_task, rxloop, hbloop, mpc>>
extraVars == <<lockVars, registryVars, debounceVars, covered, wsClientVars>>
clientVars == <<limiterVars, gatewayVars, extraVars>>
serviceVars == <<cycleVars, broadcastVars, clientVars>>
coreVars == <<casVars, coordVars, connVars, cycleVars, broadcastVars,
              limiterVars, gatewayVars>>
serverVars == <<coreVars, lockVars, registryVars, debounceVars, covered>>

vars == <<stored, wpc, wcurrent, wattempt, wresult, casLog,
          pending_summary_update, tpc, tcalls, window,
          connections, lock, sock, chunk_buffer, last_heartbeat, records,
          hpc, frame, sent, msgs,
          upc, upersons, ucurrent, uupdated, uexpected, uattempt, ulog,
          bremaining, bcount, blog,
          tokens, last_update, clock, rate_lock, apc, awake, acquired,
          gpc, gattempt, goutcomes, gwaits, gapi, gresponse, gresult, gacquires,
          holder, lkpc, sweep, sres, ucall, changes, covered,
          state, running, ws, reconnect_attempts, heartbeat_task,
          receive_task, rxloop, hbloop, mpc>>

(***************************************************************************)
(* Summary store: SummaryRepository                                        *)
(***************************************************************************)

\* DisasterSummary(summary_id="current"): version defaults to 1; the content
\* fields are tagged with the writer that produced them (0: the defaults).
DefaultSummary == [version |-> 1, narrative |-> 0, totals |-> 0, exists |-> TRUE]

\* The summary a writer's update_fn returns: every content field is its own.
WriterSummary(w, version) ==
  [version |-> version, narrative |-> w, totals |-> w, exists |-> TRUE]

\* The filter of find_one_and_update: {"summary_id": "current", "version": expected}.
MatchesFilterAnyVersion(doc, expected_version) == doc.exists

MatchesFilter(doc, expected_version) ==
  doc.exists /\ doc.version = expected_version

\* update(): summary.version = expected_version + 1, then "$set": summary.model_dump().
SetDocumentPartial(summary, expected_version) ==
  [summary EXCEPT !.version = expected_version + 1, !.totals = stored.totals]

SetDocument(summary, expected_version) ==
  [summary EXCEPT !.version = expected_version + 1]

\* update_with_retry: a writer enters the retry loop.
StartUpdate(w) ==
  /\ wpc[w] = "idle"
  /\ wpc' = [wpc EXCEPT ![w] = "get"]
  /\ wattempt' = [wattempt EXCEPT ![w] = 0]
  /\ UNCHANGED <<stored, wcurrent, wresult, casLog, coordVars, connVars, serviceVars>>

\* get(): find_one; the document if there is one, else go on to insert the default.
GetFind(w) ==
  /\ wpc[w] = "get"
  /\ IF stored.exists
       THEN /\ wcurrent' = [wcurrent EXCEPT ![w] = stored]
            /\ wpc' = [wpc EXCEPT ![w] = "update"]
       ELSE /\ wpc' = [wpc EXCEPT ![w] = "get_insert"]
            /\ UNCHANGED wcurrent
  /\ UNCHANGED <<stored, wattempt, wresult, casLog, coordVars, connVars, serviceVars>>

\* get(): insert_one(default); summary_id has a unique index, so the insert of
\* a second default raises DuplicateKeyError, which update_with_retry does not catch.
GetInsert(w) ==
  /\ wpc[w] = "get_insert"
  /\ IF stored.exists
       THEN /\ wpc' = [wpc EXCEPT ![w] = "done"]
            /\ wresult' = [wresult EXCEPT ![w] = "duplicate_key"]
            /\ UNCHANGED <<stored, wcurrent>>
       ELSE /\ stored' = DefaultSummary
            /\ wcurrent' = [wcurrent EXCEPT ![w] = DefaultSummary]
            /\ wpc' = [wpc EXCEPT ![w] = "update"]
            /\ UNCHANGED wresult
  /\ UNCHANGED <<wattempt, casLog, coordVars, connVars, serviceVars>>

\* update(updated, expected_version=current.version): the atomic
\* find_one_and_update; a miss goes on to the existence check.
FindOneAndUpdate(w) ==
  /\ wpc[w] = "update"
  /\ LET expected_version == wcurrent[w].version
         hit == MatchesFilter(stored, expected_version)
     IN /\ casLog' = casLog \cup
                       {[writer |-> w, expected |-> expected_version, ok |-> hit]}
        /\ IF hit
             THEN /\ stored' = SetDocument(WriterSummary(w, 0), expected_version)
                  /\ wpc' = [wpc EXCEPT ![w] = "done"]
                  /\ wresult' = [wresult EXCEPT ![w] = "ok"]
             ELSE /\ wpc' = [wpc EXCEPT ![w] = "update_check"]
                  /\ UNCHANGED <<stored, wresult>>
  /\ UNCHANGED <<wcurrent, wattempt, coordVars, connVars, serviceVars>>

\* update(): result is None. find_one: an existing document means a version
\* mismatch, OptimisticLockError, which update_with_retry catches: it raises
\* on the last attempt, else loops. No document: go on to insert_one(summary).
UpdateMissed(w) ==
  /\ wpc[w] = "update_check"
  /\ IF stored.exists
       THEN /\ IF wattempt[w] = MaxRetries - 1
                 THEN /\ wpc' = [wpc EXCEPT ![w] = "done"]
                      /\ wresult' = [wresult EXCEPT ![w] = "lock_error"]
                      /\ UNCHANGED wattempt
                 ELSE /\ wpc' = [wpc EXCEPT ![w] = "get"]
                      /\ wattempt' = [wattempt EXCEPT ![w] = @ + 1]
                      /\ UNCHANGED wresult
            /\ UNCHANGED stored
       ELSE /\ wpc' = [wpc EXCEPT ![w] = "update_insert"]
            /\ UNCHANGED <<stored, wattempt, wresult>>
  /\ UNCHANGED <<wcurrent, casLog, coordVars, connVars, serviceVars>>

\* update(): `await insert_one(summary.model_dump())`, the summary carrying
\* version expected_version + 1; summary_id has a unique index, so the insert
\* raises DuplicateKeyError when a document has been created meanwhile.
UpdateInsert(w) ==
  /\ wpc[w] = "update_insert"
  /\ IF stored.exists
       THEN /\ wresult' = [wresult EXCEPT ![w] = "duplicate_key"]
            /\ UNCHANGED stored
       ELSE /\ stored' = SetDocument(WriterSummary(w, 0), wcurrent[w].version)
            /\ wresult' = [wresult EXCEPT ![w] = "ok"]
  /\ wpc' = [wpc EXCEPT ![w] = "done"]
  /\ UNCHANGED <<wcurrent, wattempt, casLog, coordVars, connVars, serviceVars>>

\* A first run: no summary document yet.
InitStore ==
  /\ stored = NoDoc
  /\ wpc = [w \in Writers |-> "idle"]
  /\ wcurrent = [w \in Writers |-> NoDoc]
  /\ wattempt = [w \in Writers |-> 0]
  /\ wresult = [w \in Writers |-> "none"]
  /\ casLog = {}

\* The summaries collection is durable: a run starts with no document, or
\* with the document an earlier run left at some version.
InitCAS ==
  /\ stored \in {NoDoc} \cup
        {[DefaultSummary EXCEPT !.version = v] : v \in 1..MaxStoredVersion}
  /\ wpc = [w \in Writers |-> "idle"]
  /\ wcurrent = [w \in Writers |-> NoDoc]
  /\ wattempt = [w \in Writers |-> 0]
  /\ wresult = [w \in Writers |-> "none"]
  /\ casLog = {}

\* The steps of one writer in update_with_retry.
WriterStep(w) ==
  \/ StartUpdate(w)
  \/ GetFind(w)
  \/ GetInsert(w)
  \/ FindOneAndUpdate(w)
  \/ UpdateMissed(w)

NextCAS == \E w \in Writers : WriterStep(w)

(***************************************************************************)
(* Summary coordinator: CallProcessor._schedule_summary_update             *)
(*                                                                         *)
(* No await sits inside `async with self._summary_lock`, so the lock is    *)
(* never contended, acquiring it never suspends, and each locked section   *)
(* is one atomic step. The suspension points of a cycle are the debounce   *)
(* sleep and the awaits inside _update_summary.                            *)
(***************************************************************************)
NoWindow == [state |-> "none", calls |-> 0, timers |-> 0, recomputes |-> 0]

\* `if self._pending_summary_update: return`
ShouldCoalesceNever(flag) == FALSE

ShouldCoalesce(flag) == flag

\* `self._pending_summary_update = True`
FlagAfterEnterKept(flag) == flag

FlagAfterEnter(flag) == TRUE

\* History bookkeeping of a call: a call that finds the flag clear opens a new
\* window; any other call belongs to the open window.
WindowAfterCall(flag, starts) ==
  IF ~flag
    THEN [state |-> "open", calls |-> 1, timers |-> 1, recomputes |-> 0]
    ELSE [window EXCEPT !.calls = @ + 1,
                        !.timers = @ + (IF starts THEN 1 ELSE 0)]

\* The locked section at the start: return at once when an update is pending,
\* else set the flag and go to sleep.
ScheduleEnter(t) ==
  /\ tpc[t] = "idle"
  /\ tcalls[t] < MaxCalls
  /\ tcalls' = [tcalls EXCEPT ![t] = @ + 1]
  /\ IF ShouldCoalesce(pending_summary_update)
       THEN /\ UNCHANGED <<pending_summary_update, tpc>>
            /\ window' = WindowAfterCall(pending_summary_update, FALSE)
       ELSE /\ pending_summary_update' = FlagAfterEnter(pending_summary_update)
            /\ tpc' = [tpc EXCEPT ![t] = "sleep"]
            /\ window' = WindowAfterCall(pending_summary_update, TRUE)
  /\ UNCHANGED <<casVars, connVars, serviceVars>>

\* `await asyncio.sleep(summary_update_interval)` returns; _update_summary starts.
SleepDone(t) ==
  /\ tpc[t] = "sleep"
  /\ tpc' = [tpc EXCEPT ![t] = "recompute"]
  /\ window' = [window EXCEPT !.recomputes = @ + 1]
  /\ UNCHANGED <<pending_summary_update, tcalls, casVars, connVars, serviceVars>>

\* _update_summary returns or raises; the finally block clears the flag.
RecomputeDone(t) ==
  /\ tpc[t] = "recompute"
  /\ pending_summary_update' = FALSE
  /\ tpc' = [tpc EXCEPT ![t] = "idle"]
  /\ window' = [window EXCEPT !.state = "done"]
  /\ UNCHANGED <<tcalls, casVars, connVars, serviceVars>>

\* The task is cancelled while suspended in the debounce sleep: the sleep is
\* outside the try, CancelledError leaves the function, the flag stays set.
CancelInSleep(t) ==
  /\ tpc[t] = "sleep"
  /\ tpc' = [tpc EXCEPT ![t] = "cancelled"]
  /\ window' = [window EXCEPT !.state = "cancelled"]
  /\ UNCHANGED <<pending_summary_update, tcalls, casVars, connVars, serviceVars>>

\* The task is cancelled while suspended inside _update_summary: the finally
\* block runs and clears the flag.
CancelInRecompute(t) ==
  /\ tpc[t] = "recompute"
  /\ pending_summary_update' = FALSE
  /\ tpc' = [tpc EXCEPT ![t] = "cancelled"]
  /\ window' = [window EXCEPT !.state = "cancelled"]
  /\ UNCHANGED <<tcalls, casVars, connVars, serviceVars>>

InitCoord ==
  /\ pending_summary_update = FALSE
  /\ tpc = [t \in Tasks |-> "idle"]
  /\ tcalls = [t \in Tasks |-> 0]
  /\ window = NoWindow

NextCoord ==
  \E t \in Tasks :
    \/ ScheduleEnter(t)
    \/ SleepDone(t)
    \/ RecomputeDone(t)
    \/ CancelInSleep(t)
    \/ CancelInRecompute(t)

(***************************************************************************)
(* Connection registry, receive loop and chunk aggregation                 *)
(*                                                                         *)
(* One websocket_endpoint task per socket. A Connection object is made by  *)
(* each connect call, so a Connection is named by its socket. The provider *)
(* call extract_info is one suspension point with two outcomes.            *)
(***************************************************************************)
Persons == {"p1", "p2"}
Sockets == {"s1", "s2", "s3"}
None == "none"
SP == " "

\* The person_id path parameter of each websocket: s1 and s2 are two sessions
\* of the same caller, s3 is the session of another caller.
PersonOf(s) == IF s = "s3" THEN "p2" ELSE "p1"

\* The sessions that send messages.
Sessions == {"s1", "s2"}

\* Sockets are named in the order in which their connects take the lock.
Earlier(s) == IF s = "s2" THEN {"s1"} ELSE {}

\* Inbound messages. "bad_chunk" is a transcript_chunk whose payload has no
\* "text" key (KeyError when the TranscriptChunk is built).
Texts == {<<>>, <<"a">>}
NoMsg == [kind |-> "none", text |-> <<>>, final |-> FALSE]
ChunkInbound ==
  {[kind |-> "chunk", text |-> t, final |-> f] : t \in Texts, f \in BOOLEAN}
  \cup {[NoMsg EXCEPT !.kind = "bad_chunk"]}
\* "not_json" is a frame whose text json.loads rejects; "bad_envelope" is
\* JSON that WebSocketMessage(**data) rejects: not an object, no "type", or
\* a type that is not a MessageType.
Malformed == {"not_json", "bad_envelope"}
Inbound ==
  ChunkInbound
    \cup {[NoMsg EXCEPT !.kind = k] : k \in {"heartbeat", "call_end"} \cup Malformed}

\* PersonRecord: transcript_chunks holds the text of each stored chunk, in
\* arrival order (no other field of a stored chunk is read by the core).
NoRecord ==
  [exists |-> FALSE, transcript_chunks |-> <<>>, extraction_history |-> 0,
   is_active |-> TRUE]

\* The locals of a handler task while it handles one message.
NoFrame == [msg |-> NoMsg, conn |-> None, full_transcript |-> <<>>, calls |-> 0]

NoSend == [type |-> "none", from |-> None, to |-> None]

RECURSIVE JoinTextsUnspaced(_)
JoinTextsUnspaced(texts) ==
  IF texts = <<>> THEN <<>> ELSE texts[1] \o JoinTextsUnspaced(Tail(texts))

\* " ".join(chunk.text for chunk in record.transcript_chunks)
RECURSIVE JoinTexts(_)
JoinTexts(texts) ==
  IF texts = <<>> THEN <<>>
  ELSE IF Len(texts) = 1 THEN texts[1]
  ELSE texts[1] \o <<SP>> \o JoinTexts(Tail(texts))

\* str.strip(): leading and trailing whitespace removed.
RECURSIVE LStrip(_)
LStrip(t) == IF t # <<>> /\ Head(t) = SP THEN LStrip(Tail(t)) ELSE t

RECURSIVE RStrip(_)
RStrip(t) ==
  IF t # <<>> /\ t[Len(t)] = SP THEN RStrip(SubSeq(t, 1, Len(t) - 1)) ELSE t

Strip(t) == RStrip(LStrip(t))

\* `if not full_transcript.strip(): return`
IsBlankUnstripped(full_transcript) == full_transcript = <<>>

IsBlank(full_transcript) == Strip(full_transcript) = <<>>

\* should_process = chunk.is_final or (conn and len(conn.chunk_buffer) >= size)
ShouldProcess(is_final, conn, buffer) ==
  is_final \/ (conn # None /\ Len(buffer) >= ChunkBufferSize)

\* send_to_person(person_id, message) by the task of socket s: the message
\* goes to the socket registered for the person at that moment; `to` is None
\* when there is none or its send_json fails (the call returns False).
SendToPerson(s, type, registry) ==
  LET conn == registry[PersonOf(s)]
  IN [type |-> type, from |-> s,
      to |-> IF conn # None /\ sock[conn] = "open" THEN conn ELSE None]

\* `if conn: conn.chunk_buffer.clear()`
ClearedBuffer(s) ==
  IF frame[s].conn # None THEN [chunk_buffer EXCEPT ![frame[s].conn] = <<>>]
  ELSE chunk_buffer

\* The handler leaves the message: process_message returns into the loop.
BackToLoop(s) ==
  /\ hpc' = [hpc EXCEPT ![s] = "recv"]
  /\ frame' = [frame EXCEPT ![s] = NoFrame]

\* _extract_and_update has returned: the caller clears the buffer, then the
\* loop goes on (transcript_chunk) or end_call follows (call_end).
ExtractReturn(s) ==
  /\ chunk_buffer' = ClearedBuffer(s)
  /\ IF frame[s].msg.kind = "call_end"
       THEN /\ hpc' = [hpc EXCEPT ![s] = "end_call"]
            /\ UNCHANGED frame
       ELSE BackToLoop(s)

\* connect(): accept, take the registry lock, close the connection already
\* registered for the person (an await, with the lock held).
ConnectBegin(s) ==
  /\ hpc[s] = "new"
  /\ \A e \in Earlier(s) : hpc[e] # "new"
  /\ lock = None
  /\ lock' = s
  /\ LET old == connections[PersonOf(s)]
     IN sock' = [x \in Sockets |->
                   IF x = s THEN "open"
                   ELSE IF x = old THEN "closed" ELSE sock[x]]
  /\ hpc' = [hpc EXCEPT ![s] = "register"]
  /\ sent' = NoSend
  /\ UNCHANGED <<connections, chunk_buffer, last_heartbeat, records, frame,
                 msgs, casVars, coordVars, serviceVars>>

\* connect(): self._connections[person_id] = Connection(...); the lock is
\* released; connection_ack is sent with send_to_person; the loop starts.
ConnectRegister(s) ==
  /\ hpc[s] = "register"
  /\ connections' = [connections EXCEPT ![PersonOf(s)] = s]
  /\ lock' = None
  /\ hpc' = [hpc EXCEPT ![s] = "recv"]
  /\ sent' = SendToPerson(s, "connection_ack", connections')
  /\ UNCHANGED <<sock, chunk_buffer, last_heartbeat, records, frame, msgs,
                 casVars, coordVars, serviceVars>>

\* The peer closes the websocket while the server awaits receive_json.
ClientClose(s) ==
  /\ sock[s] = "open"
  /\ hpc[s] = "recv"
  /\ sock' = [sock EXCEPT ![s] = "closed"]
  /\ sent' = NoSend
  /\ UNCHANGED <<connections, lock, chunk_buffer, last_heartbeat, records,
                 hpc, frame, msgs, casVars, coordVars, serviceVars>>

\* receive_json() returns a message, or raises on text that is not JSON: that
\* is outside the inner try, so the outer handlers log it and the finally
\* block is entered. WebSocketMessage(**data) raises inside the inner try,
\* whose except block sends an error. Else process_message dispatches on the
\* type and runs to its first await.
\*   heartbeat: update_heartbeat, then send heartbeat_ack.
\*   call_end:  flush a non-empty buffer through _extract_and_update, else
\*              go on to end_call.
\*   transcript_chunk: on to get_or_create.
Receive(s, m) ==
  /\ hpc[s] = "recv"
  /\ sock[s] = "open"
  /\ msgs < MaxMsgs
  /\ msgs' = msgs + 1
  /\ LET conn == connections[PersonOf(s)]
     IN CASE m.kind = "heartbeat" ->
               /\ last_heartbeat' =
                    IF conn # None
                      THEN [last_heartbeat EXCEPT ![conn] = "heartbeat"]
                      ELSE last_heartbeat
               /\ sent' = SendToPerson(s, "heartbeat_ack", connections)
               /\ UNCHANGED <<hpc, frame>>
          [] m.kind = "not_json" ->
               /\ hpc' = [hpc EXCEPT ![s] = "cleanup"]
               /\ sent' = NoSend
               /\ UNCHANGED <<frame, last_heartbeat>>
          [] m.kind = "bad_envelope" ->
               /\ sent' = SendToPerson(s, "error", connections)
               /\ UNCHANGED <<hpc, frame, last_heartbeat>>
          [] m.kind = "call_end" ->
               /\ frame' = [frame EXCEPT ![s].msg = m, ![s].conn = conn]
               /\ hpc' = [hpc EXCEPT ![s] =
                            IF conn # None /\ chunk_buffer[conn] # <<>>
                              THEN "ex_get" ELSE "end_call"]
               /\ sent' = NoSend
               /\ UNCHANGED last_heartbeat
          [] OTHER ->
               /\ frame' = [frame EXCEPT ![s].msg = m]
               /\ hpc' = [hpc EXCEPT ![s] = "get_or_create"]
               /\ sent' = NoSend
               /\ UNCHANGED last_heartbeat
  /\ UNCHANGED <<connections, lock, sock, chunk_buffer, records,
                 casVars, coordVars, serviceVars>>

\* receive_json() on a closed websocket raises; the outer handlers log and the
\* finally block is entered.
ReceiveClosed(s) ==
  /\ hpc[s] = "recv"
  /\ sock[s] = "closed"
  /\ hpc' = [hpc EXCEPT ![s] = "cleanup"]
  /\ sent' = NoSend
  /\ UNCHANGED <<connections, lock, sock, chunk_buffer, last_heartbeat,
                 records, frame, msgs, casVars, coordVars, serviceVars>>

\* disconnect(person_id): `if person_id in self._connections: del ...`; the
\* entry is found by person_id alone.
EntryRemoved(s) == [connections EXCEPT ![PersonOf(s)] = None]

\* finally: await connection_manager.disconnect(person_id), under the lock.
\* The endpoint returns and its websocket, if still open, is closed.
Disconnect(s) ==
  /\ hpc[s] = "cleanup"
  /\ lock = None
  /\ connections' = EntryRemoved(s)
  /\ hpc' = [hpc EXCEPT ![s] = "done"]
  /\ sock' = [sock EXCEPT ![s] = "closed"]
  /\ sent' = NoSend
  /\ UNCHANGED <<lock, chunk_buffer, last_heartbeat, records, frame,
                 msgs, casVars, coordVars, serviceVars>>

\* _process_transcript_chunk: get_or_create, then TranscriptChunk(...). A
\* payload without "text" raises; the loop's inner except sends an error to
\* the person and the loop goes on.
GetOrCreate(s) ==
  /\ hpc[s] = "get_or_create"
  /\ records' = [records EXCEPT ![PersonOf(s)].exists = TRUE]
  /\ IF frame[s].msg.kind = "bad_chunk"
       THEN /\ sent' = SendToPerson(s, "error", connections)
            /\ BackToLoop(s)
       ELSE /\ hpc' = [hpc EXCEPT ![s] = "add"]
            /\ sent' = NoSend
            /\ UNCHANGED frame
  /\ UNCHANGED <<connections, lock, sock, chunk_buffer, last_heartbeat,
                 msgs, casVars, coordVars, serviceVars>>

\* add_transcript_chunk, then, without an await: conn = get_connection,
\* append to its buffer, decide should_process.
AddChunk(s) ==
  /\ hpc[s] = "add"
  /\ LET p == PersonOf(s)
         conn == connections[p]
         chunk == [text |-> frame[s].msg.text, final |-> frame[s].msg.final]
         buffer == IF conn # None THEN Append(chunk_buffer[conn], chunk)
                   ELSE <<>>
     IN /\ records' = [records EXCEPT ![p].transcript_chunks = Append(@, chunk.text)]
        /\ chunk_buffer' = IF conn # None
                             THEN [chunk_buffer EXCEPT ![conn] = buffer]
                             ELSE chunk_buffer
        /\ IF ShouldProcess(chunk.final, conn, buffer)
             THEN /\ hpc' = [hpc EXCEPT ![s] = "ex_get"]
                  /\ frame' = [frame EXCEPT ![s].conn = conn]
             ELSE BackToLoop(s)
  /\ sent' = NoSend
  /\ UNCHANGED <<connections, lock, sock, last_heartbeat, msgs,
                 casVars, coordVars, serviceVars>>

\* _extract_and_update: record = get(person_id); join the whole transcript;
\* return without extraction when there is no record or the text is blank
\* (the caller then clears the buffer).
ExtractGet(s) ==
  /\ hpc[s] = "ex_get"
  /\ LET record == records[PersonOf(s)]
         full_transcript == JoinTexts(record.transcript_chunks)
     IN IF ~record.exists \/ IsBlank(full_transcript)
          THEN ExtractReturn(s) /\ UNCHANGED covered
          ELSE /\ hpc' = [hpc EXCEPT ![s] = "ex_llm"]
               /\ frame' = [frame EXCEPT ![s].full_transcript = full_transcript]
               /\ covered' = [covered EXCEPT ![PersonOf(s)] =
                                Len(record.transcript_chunks)]
               /\ UNCHANGED chunk_buffer
  /\ sent' = NoSend
  /\ UNCHANGED <<connections, lock, sock, last_heartbeat, records, msgs,
                 casVars, coordVars, cycleVars, broadcastVars, limiterVars,
                 gatewayVars, lockVars, wsClientVars, registryVars, debounceVars>>

\* extract_info(full_transcript) returns an ExtractedInfo, or raises: the
\* except block sends an error to the person. full_transcript is not read
\* after the call.
ExtractCall(s, ok) ==
  /\ hpc[s] = "ex_llm"
  /\ frame' = [frame EXCEPT ![s].calls = @ + 1, ![s].full_transcript = <<>>]
  /\ IF ok
       THEN /\ hpc' = [hpc EXCEPT ![s] = "ex_store"]
            /\ sent' = NoSend
       ELSE /\ hpc' = [hpc EXCEPT ![s] = "ex_finish"]
            /\ sent' = SendToPerson(s, "error", connections)
  /\ UNCHANGED <<connections, lock, sock, chunk_buffer, last_heartbeat,
                 records, msgs, casVars, coordVars, serviceVars>>

\* update_extracted_info: latest value set, history appended.
ExtractStore(s) ==
  /\ hpc[s] = "ex_store"
  /\ records' = [records EXCEPT ![PersonOf(s)].extraction_history = @ + 1]
  /\ hpc' = [hpc EXCEPT ![s] = "ex_send"]
  /\ sent' = NoSend
  /\ UNCHANGED <<connections, lock, sock, chunk_buffer, last_heartbeat,
                 frame, msgs, casVars, coordVars, serviceVars>>

\* send_to_person(person_id, chunk_processed).
ExtractSend(s) ==
  /\ hpc[s] = "ex_send"
  /\ hpc' = [hpc EXCEPT ![s] = "sched"]
  /\ sent' = SendToPerson(s, "chunk_processed", connections)
  /\ UNCHANGED <<connections, lock, sock, chunk_buffer, last_heartbeat,
                 records, frame, msgs, casVars, coordVars, serviceVars>>

\* The error has been sent: _extract_and_update returns, the buffer is cleared.
ExtractFinish(s) ==
  /\ hpc[s] = "ex_finish"
  /\ ExtractReturn(s)
  /\ sent' = NoSend
  /\ UNCHANGED <<connections, lock, sock, last_heartbeat, records, msgs,
                 casVars, coordVars, serviceVars>>

\* _schedule_summary_update awaited by the handler after a successful
\* extraction ("sched") or at the end of call_end ("end_sched"): the locked
\* section at its start. A coalesced call returns into the handler.
HandlerSchedule(s) ==
  /\ hpc[s] \in {"sched", "end_sched"}
  /\ IF ShouldCoalesce(pending_summary_update)
       THEN /\ UNCHANGED pending_summary_update
            /\ IF hpc[s] = "sched"
                 THEN ExtractReturn(s)
                 ELSE BackToLoop(s) /\ UNCHANGED chunk_buffer
       ELSE /\ pending_summary_update' = FlagAfterEnter(pending_summary_update)
            /\ hpc' = [hpc EXCEPT ![s] =
                         IF hpc[s] = "sched" THEN "sleep" ELSE "end_sleep"]
            /\ UNCHANGED <<chunk_buffer, frame>>
  /\ sent' = NoSend
  /\ UNCHANGED <<connections, lock, sock, last_heartbeat, records, msgs,
                 casVars, taskVars, serviceVars>>

\* The debounce sleep of the handler's cycle returns; _update_summary starts.
HandlerSleepDone(s) ==
  /\ hpc[s] \in {"sleep", "end_sleep"}
  /\ hpc' = [hpc EXCEPT ![s] =
               IF hpc[s] = "sleep" THEN "recompute" ELSE "end_recompute"]
  /\ sent' = NoSend
  /\ UNCHANGED <<connections, lock, sock, chunk_buffer, last_heartbeat,
                 records, frame, msgs, casVars, coordVars, serviceVars>>

\* _update_summary has returned; finally clears the flag; the handler goes on.
HandlerRecomputeDone(s) ==
  /\ hpc[s] \in {"recompute", "end_recompute"}
  /\ pending_summary_update' = FALSE
  /\ IF hpc[s] = "recompute"
       THEN ExtractReturn(s)
       ELSE BackToLoop(s) /\ UNCHANGED chunk_buffer
  /\ sent' = NoSend
  /\ UNCHANGED <<connections, lock, sock, last_heartbeat, records, msgs,
                 casVars, taskVars, serviceVars>>

\* _process_call_end: end_call marks the record, if there is one, inactive; then
\* _schedule_summary_update.
EndCall(s) ==
  /\ hpc[s] = "end_call"
  /\ records' = IF records[PersonOf(s)].exists
                  THEN [records EXCEPT ![PersonOf(s)].is_active = FALSE]
                  ELSE records
  /\ hpc' = [hpc EXCEPT ![s] = "end_sched"]
  /\ sent' = NoSend
  /\ UNCHANGED <<connections, lock, sock, chunk_buffer, last_heartbeat,
                 frame, msgs, casVars, coordVars, serviceVars>>

InitConn ==
  /\ connections = [p \in Persons |-> None]
  /\ lock = None
  /\ sock = [s \in Sockets |-> "new"]
  /\ chunk_buffer = [s \in Sockets |-> <<>>]
  /\ last_heartbeat = [s \in Sockets |-> "connect"]
  /\ records = [p \in Persons |-> NoRecord]
  /\ hpc = [s \in Sockets |-> "new"]
  /\ frame = [s \in Sockets |-> NoFrame]
  /\ sent = NoSend
  /\ msgs = 0

\* The steps of the connection tasks when the callers send transcript chunks.
NextConn ==
  \E s \in Sessions :
    \/ ConnectBegin(s)
    \/ ConnectRegister(s)
    \/ ClientClose(s)
    \/ \E m \in ChunkInbound : Receive(s, m)
    \/ ReceiveClosed(s)
    \/ Disconnect(s)
    \/ GetOrCreate(s)
    \/ AddChunk(s)
    \/ ExtractGet(s)
    \/ \E ok \in BOOLEAN : ExtractCall(s, ok)
    \/ ExtractStore(s)
    \/ ExtractSend(s)
    \/ ExtractFinish(s)
    \/ HandlerSchedule(s)
    \/ HandlerSleepDone(s)
    \/ HandlerRecomputeDone(s)

\* The same with heartbeat and call_end messages.
NextCall ==
  \E s \in Sessions :
    \/ ConnectBegin(s)
    \/ ConnectRegister(s)
    \/ ClientClose(s)
    \/ \E m \in Inbound : Receive(s, m)
    \/ ReceiveClosed(s)
    \/ Disconnect(s)
    \/ GetOrCreate(s)
    \/ AddChunk(s)
    \/ ExtractGet(s)
    \/ \E ok \in BOOLEAN : ExtractCall(s, ok)
    \/ ExtractStore(s)
    \/ ExtractSend(s)
    \/ ExtractFinish(s)
    \/ HandlerSchedule(s)
    \/ HandlerSleepDone(s)
    \/ HandlerRecomputeDone(s)
    \/ EndCall(s)

\* The callers connect and disconnect; they send nothing.
Churn(s) ==
  \/ ConnectBegin(s)
  \/ ConnectRegister(s)
  \/ ClientClose(s)
  \/ ReceiveClosed(s)
  \/ Disconnect(s)

(***************************************************************************)
(* The three locks: ConnectionManager._lock (taken by connect and          *)
(* disconnect), RateLimiter._lock (taken by acquire) and                   *)
(* CallProcessor._summary_lock (taken at the start and in the finally      *)
(* block of _schedule_summary_update)                                      *)
(*                                                                         *)
(* A task is a websocket_endpoint task or the heartbeat monitor; between   *)
(* two locked sections it runs code that takes no lock. `async with` takes *)
(* a free lock without suspending and releases it on every way out of its  *)
(* block.                                                                  *)
(***************************************************************************)
LockTasks == 1..NumLockTasks
NoTask == 0

\* The locked sections and the lock each one takes.
Sections == {"connect", "disconnect", "acquire", "schedule_enter", "schedule_finally"}
LockOf(section) ==
  CASE section \in {"connect", "disconnect"} -> "registry"
    [] section = "acquire" -> "rate"
    [] OTHER -> "summary"
Locks == {"registry", "rate", "summary"}

Outside == [at |-> "outside", section |-> "none"]

\* __aexit__ of `async with`: the lock is released.
ReleasedNever(l) == holder

Released(l) == [holder EXCEPT ![l] = NoTask]

\* The awaits inside the locked sections: connect awaits the close of the
\* replaced websocket, acquire awaits asyncio.sleep when no token is left;
\* disconnect and the two sections of _schedule_summary_update have none.
MaySuspendInside(section) == section \in {"connect", "acquire"}

\* Task t has the lock of the section and runs the block up to its first
\* suspension or to its end.
SectionBody(t, section, suspends) ==
  IF suspends
    THEN /\ holder' = [holder EXCEPT ![LockOf(section)] = t]
         /\ lkpc' = [lkpc EXCEPT ![t] = [at |-> "inside", section |-> section]]
    ELSE /\ holder' = Released(LockOf(section))
         /\ lkpc' = [lkpc EXCEPT ![t] = Outside]

\* `async with <lock>:` is reached by a task: it enters when the lock is free
\* and nobody waits for it, else it waits.
SectionCall(t, section, suspends) ==
  /\ lkpc[t] = Outside
  /\ suspends => MaySuspendInside(section)
  /\ IF holder[LockOf(section)] = NoTask
          /\ \A u \in LockTasks :
               ~(lkpc[u].at = "waiting" /\ LockOf(lkpc[u].section) = LockOf(section))
       THEN SectionBody(t, section, suspends)
       ELSE /\ lkpc' = [lkpc EXCEPT ![t] = [at |-> "waiting", section |-> section]]
            /\ UNCHANGED holder
  /\ UNCHANGED <<coreVars, registryVars, debounceVars, covered, wsClientVars>>

\* The lock a task waits for was released and the task gets it.
SectionEnter(t, suspends) ==
  /\ lkpc[t].at = "waiting"
  /\ holder[LockOf(lkpc[t].section)] = NoTask
  /\ suspends => MaySuspendInside(lkpc[t].section)
  /\ SectionBody(t, lkpc[t].section, suspends)
  /\ UNCHANGED <<coreVars, registryVars, debounceVars, covered, wsClientVars>>

\* The await inside the block returns: connect registers the Connection and
\* leaves the block; acquire takes its token and leaves, or sleeps again.
SectionResume(t, suspends) ==
  /\ lkpc[t].at = "inside"
  /\ suspends => lkpc[t].section = "acquire"
  /\ SectionBody(t, lkpc[t].section, suspends)
  /\ UNCHANGED <<coreVars, registryVars, debounceVars, covered, wsClientVars>>

\* No task is at a lock.
InitLocks ==
  /\ holder = [l \in Locks |-> NoTask]
  /\ lkpc = [t \in LockTasks |-> Outside]


NextLocks ==
  \E t \in LockTasks, suspends \in BOOLEAN :
    \/ \E section \in Sections : SectionCall(t, section, suspends)
    \/ SectionEnter(t, suspends)
    \/ SectionResume(t, suspends)

(***************************************************************************)
(* The heartbeat sweep: heartbeat_monitor and                              *)
(* ConnectionManager.close_stale_connections; send_to_person               *)
(*                                                                         *)
(* last_heartbeat of a Connection is "expired" once more than the timeout  *)
(* has passed since it was set. check_stale_connections contains no await, *)
(* so the staleness check and the first iteration of the loop up to its    *)
(* `await conn.websocket.close` are one step; so are disconnect (the lock  *)
(* is free) and the next iteration up to its close.                        *)
(***************************************************************************)
NoSweep ==
  [pc |-> "sleep", stale |-> <<>>, person |-> None, found |-> {},
   closed |-> {}, evicted |-> {}, calls |-> {}]

NoResult == [person |-> None, returned |-> FALSE, raised |-> FALSE, to |-> None]

\* More than the timeout passes without a heartbeat on the Connection of s.
Expire(s) ==
  /\ connections[PersonOf(s)] = s
  /\ last_heartbeat[s] # "expired"
  /\ last_heartbeat' = [last_heartbeat EXCEPT ![s] = "expired"]
  /\ sent' = NoSend
  /\ UNCHANGED <<connections, lock, sock, chunk_buffer, records, hpc, frame,
                 msgs, casVars, coordVars, serviceVars>>

\* `if elapsed > timeout_seconds: stale.append(person_id)`
IsStale(p) ==
  connections[p] # None /\ last_heartbeat[connections[p]] = "expired"

\* The orders in which a list can hold the persons of a set.
ListsOf(S) ==
  {q \in UNION {[1..n -> S] : n \in {Cardinality(S)}} :
     \A i, j \in 1..Cardinality(S) : i # j => q[i] # q[j]}

\* `conn = self._connections.get(person_id)`, `if conn:`: the person_ids at
\* the head of the list that have no Connection are passed over.
RECURSIVE SkipUnregistered(_, _)
SkipUnregistered(registry, stale) ==
  IF stale # <<>> /\ registry[Head(stale)] = None
    THEN SkipUnregistered(registry, Tail(stale)) ELSE stale

DisconnectedAll(registry, p) == [q \in Persons |-> None]

\* disconnect(person_id): `if person_id in self._connections: del ...`.
Disconnected(registry, p) ==
  IF registry[p] # None THEN [registry EXCEPT ![p] = None] ELSE registry

\* The loop of close_stale_connections goes on over `stale` with the registry
\* as it is now: the websocket of the next person_id that has a Connection
\* is closed (an await), or the loop ends.
SweepOn(registry, stale, log) ==
  LET rest == SkipUnregistered(registry, stale)
  IN IF rest = <<>>
       THEN /\ sweep' = [log EXCEPT !.pc = "done", !.stale = <<>>,
                                   !.person = None]
            /\ UNCHANGED sock
       ELSE /\ sweep' = [log EXCEPT !.pc = "evict", !.stale = Tail(rest),
                                   !.person = Head(rest),
                                   !.closed = @ \cup {registry[Head(rest)]}]
            /\ sock' = [sock EXCEPT ![registry[Head(rest)]] = "closed"]

\* The sleep of heartbeat_monitor returns: check_stale_connections builds the
\* list of stale person_ids, in the order of the registry, and the loop
\* starts.
SweepCheck(stale) ==
  /\ sweep.pc = "sleep"
  /\ stale \in ListsOf({p \in Persons : IsStale(p)})
  /\ SweepOn(connections, stale,
             [sweep EXCEPT !.found = {connections[stale[i]] : i \in 1..Len(stale)}])
  /\ sent' = NoSend
  /\ UNCHANGED <<connections, lock, chunk_buffer, last_heartbeat, records, hpc,
                 frame, msgs, sres, casVars, coordVars, cycleVars,
                 broadcastVars, limiterVars, gatewayVars, lockVars, wsClientVars,
                 debounceVars, covered>>

\* The close has returned or raised: `await self.disconnect(person_id)`
\* removes the entry of the person_id; the loop goes on.
SweepEvict ==
  /\ sweep.pc = "evict"
  /\ lock = None
  /\ connections' = Disconnected(connections, sweep.person)
  /\ SweepOn(connections',
             sweep.stale,
             [sweep EXCEPT
                !.evicted = @ \cup ({connections[sweep.person]} \ {None}),
                !.calls = @ \cup {sweep.person}])
  /\ sent' = NoSend
  /\ UNCHANGED <<lock, chunk_buffer, last_heartbeat, records, hpc, frame, msgs,
                 sres, casVars, coordVars, cycleVars, broadcastVars,
                 limiterVars, gatewayVars, lockVars, wsClientVars,
                 debounceVars, covered>>

\* except Exception in send_to_person.
CaughtBySendNothing(exc) == FALSE

CaughtBySend(exc) == exc \in {"RuntimeError", "WebSocketDisconnect"}

\* send_to_person(p, message): no Connection, False; send_json returns,
\* True; send_json raises on a websocket that is closed, which is caught,
\* False.
SendToPersonResult(registry, p, exc) ==
  LET conn == registry[p]
  IN IF conn = None
       THEN [person |-> p, returned |-> FALSE, raised |-> FALSE, to |-> None]
     ELSE IF sock[conn] = "open"
       THEN [person |-> p, returned |-> TRUE, raised |-> FALSE, to |-> conn]
     ELSE [person |-> p, returned |-> FALSE, raised |-> ~CaughtBySend(exc),
           to |-> None]

\* Some task calls send_to_person(p, message).
SendCall(p, exc) ==
  /\ sres' = SendToPersonResult(connections, p, exc)
  /\ sres' # sres
  /\ sent' = NoSend
  /\ UNCHANGED <<connections, lock, sock, chunk_buffer, last_heartbeat, records,
                 hpc, frame, msgs, sweep, casVars, coordVars, cycleVars,
                 broadcastVars, limiterVars, gatewayVars, lockVars, wsClientVars,
                 debounceVars, covered>>

\* The monitor sleeps; send_to_person has not been called.
InitSweep ==
  /\ sweep = NoSweep
  /\ sres = NoResult

\* No _update_summary call has been made, no change persisted.
NoCall == [task |-> NoTask, call |-> 0, after |-> "none"]

InitDebounce ==
  /\ ucall = NoCall
  /\ changes = {}

\* The extractions stored in a record were made over the chunks it holds.
InitCovered ==
  covered = [p \in Persons |->
               IF records[p].extraction_history > 0
                 THEN Len(records[p].transcript_chunks) ELSE 0]

(***************************************************************************)
(* The caller's side: DisasterCallClient, with auto_reconnect on           *)
(***************************************************************************)
\* The task slots of the event loop that the loops of one client can occupy.
ClientLoops == 1..MaxLoops

\* No task: the value of _heartbeat_task and _receive_task after __init__.
NoLoop == 0

\* The client after __init__.
InitWsClient ==
  /\ state = "disconnected"
  /\ running = FALSE
  /\ ws = "none"
  /\ reconnect_attempts = 0
  /\ heartbeat_task = NoLoop
  /\ receive_task = NoLoop
  /\ rxloop = [l \in ClientLoops |-> "none"]
  /\ hbloop = [l \in ClientLoops |-> "none"]
  /\ mpc = "idle"

\* asyncio.create_task: the slot the new task takes.
FreeLoop(loops) == CHOOSE l \in ClientLoops : loops[l] = "none"

\* connect() after websockets.connect has returned: the new connection is
\* stored and both loops are created, whatever tasks exist. `back` is the
\* receive loop that made the call through _reconnect, or NoLoop. A receive
\* loop that waits in recv() on an open connection keeps waiting on the
\* connection it read.
Established(back) ==
  /\ \E l \in ClientLoops : rxloop[l] = "none"
  /\ \E l \in ClientLoops : hbloop[l] = "none"
  /\ ws' = "open"
  /\ state' = "connected"
  /\ reconnect_attempts' = 0
  /\ running' = TRUE
  /\ heartbeat_task' = FreeLoop(hbloop)
  /\ hbloop' = [hbloop EXCEPT ![FreeLoop(hbloop)] = "sleep"]
  /\ receive_task' = FreeLoop(rxloop)
  /\ rxloop' = [l \in ClientLoops |->
                  IF l = FreeLoop(rxloop) \/ l = back
                    THEN "top"
                    ELSE IF rxloop[l] = "recv" /\ ws = "open"
                      THEN "recv_old" ELSE rxloop[l]]

\* _reconnect up to its sleep, or the return to the loop when the attempts
\* are used up.
ReconnectOrReturn(r) ==
  IF reconnect_attempts < MaxReconnectAttempts
    THEN /\ state' = "reconnecting"
         /\ reconnect_attempts' = reconnect_attempts + 1
         /\ rxloop' = [rxloop EXCEPT ![r] = "backoff"]
    ELSE /\ state' = "disconnected"
         /\ rxloop' = [rxloop EXCEPT ![r] = "top"]
         /\ UNCHANGED reconnect_attempts

\* The application calls connect(): it returns at once on a connected client
\* and otherwise awaits websockets.connect.
UserConnect ==
  /\ mpc = "idle"
  /\ state # "connected"
  /\ state' = "connecting"
  /\ mpc' = "connecting"
  /\ UNCHANGED <<running, ws, reconnect_attempts, heartbeat_task, receive_task,
                 rxloop, hbloop, serverVars>>

\* websockets.connect returns to the application's call, or raises.
UserConnectDone(ok) ==
  /\ mpc = "connecting"
  /\ IF ok
       THEN Established(NoLoop)
       ELSE /\ state' = "disconnected"
            /\ UNCHANGED <<running, ws, reconnect_attempts, heartbeat_task,
                           receive_task, rxloop, hbloop>>
  /\ mpc' = "idle"
  /\ UNCHANGED <<serverVars>>

\* The server closes the connection: every recv() waiting on it raises
\* ConnectionClosed.
ServerClose ==
  /\ ws = "open"
  /\ ws' = "closed"
  /\ rxloop' = [l \in ClientLoops |->
                  IF rxloop[l] = "recv" THEN "raised" ELSE rxloop[l]]
  /\ UNCHANGED <<state, running, reconnect_attempts, heartbeat_task,
                 receive_task, hbloop, mpc, serverVars>>

\* The server closes a connection the client has replaced.
ReplacedClose(r) ==
  /\ rxloop[r] = "recv_old"
  /\ rxloop' = [rxloop EXCEPT ![r] = "raised"]
  /\ UNCHANGED <<state, running, ws, reconnect_attempts, heartbeat_task,
                 receive_task, hbloop, mpc, serverVars>>

\* _receive_loop at `while self._running`: it ends, sleeps for want of a
\* connection, waits in recv(), or handles the ConnectionClosed that recv()
\* raises on a closed connection.
ReceiveLoopTop(r) ==
  /\ rxloop[r] = "top"
  /\ IF ~running
       THEN /\ rxloop' = [rxloop EXCEPT ![r] = "none"]
            /\ UNCHANGED <<state, reconnect_attempts>>
       ELSE IF ws = "none"
         THEN UNCHANGED <<rxloop, state, reconnect_attempts>>
         ELSE IF ws = "open"
           THEN /\ rxloop' = [rxloop EXCEPT ![r] = "recv"]
                /\ UNCHANGED <<state, reconnect_attempts>>
           ELSE ReconnectOrReturn(r)
  /\ UNCHANGED <<running, ws, heartbeat_task, receive_task, hbloop, mpc,
                 serverVars>>

\* _receive_loop catches ConnectionClosed: _handle_disconnect.
ReceiveLoopClosed(r) ==
  /\ rxloop[r] = "raised"
  /\ ReconnectOrReturn(r)
  /\ UNCHANGED <<running, ws, heartbeat_task, receive_task, hbloop, mpc,
                 serverVars>>

\* The backoff sleep of _reconnect is over and connect() is called inside
\* the receive loop.
ReconnectConnect(r) ==
  /\ rxloop[r] = "backoff"
  /\ IF state = "connected"
       THEN /\ rxloop' = [rxloop EXCEPT ![r] = "top"]
            /\ UNCHANGED state
       ELSE /\ rxloop' = [rxloop EXCEPT ![r] = "connecting"]
            /\ state' = "connecting"
  /\ UNCHANGED <<running, ws, reconnect_attempts, heartbeat_task, receive_task,
                 hbloop, mpc, serverVars>>

\* websockets.connect returns to the receive loop's call, or raises.
ReconnectDone(r, ok) ==
  /\ rxloop[r] = "connecting"
  /\ IF ok
       THEN Established(r)
       ELSE /\ ReconnectOrReturn(r)
            /\ UNCHANGED <<running, ws, heartbeat_task, receive_task, hbloop>>
  /\ UNCHANGED <<mpc, serverVars>>

\* _heartbeat_loop wakes from its sleep, sends if connected (a failed send is
\* logged) and tests self._running.
HeartbeatWake(h) ==
  /\ hbloop[h] = "sleep"
  /\ hbloop' = [hbloop EXCEPT ![h] = IF running THEN "sleep" ELSE "none"]
  /\ UNCHANGED <<state, running, ws, reconnect_attempts, heartbeat_task,
                 receive_task, rxloop, mpc, serverVars>>

\* The application calls disconnect(): the flags are set and the task in
\* _heartbeat_task is cancelled and awaited.
DisconnectBegin ==
  /\ mpc = "idle"
  /\ heartbeat_task # NoLoop
  /\ running' = FALSE
  /\ state' = "disconnected"
  /\ hbloop' = [hbloop EXCEPT ![heartbeat_task] = "none"]
  /\ mpc' = "cancel_receive"
  /\ UNCHANGED <<ws, reconnect_attempts, heartbeat_task, receive_task, rxloop,
                 serverVars>>

\* disconnect() cancels and awaits the task in _receive_task.
DisconnectReceive ==
  /\ mpc = "cancel_receive"
  /\ rxloop' = [rxloop EXCEPT ![receive_task] = "none"]
  /\ mpc' = "close"
  /\ UNCHANGED <<state, running, ws, reconnect_attempts, heartbeat_task,
                 receive_task, hbloop, serverVars>>

\* disconnect() closes self._ws and drops it.
DisconnectClose ==
  /\ mpc = "close"
  /\ ws' = "none"
  /\ rxloop' = [l \in ClientLoops |->
                  IF rxloop[l] = "recv" THEN "raised" ELSE rxloop[l]]
  /\ mpc' = "idle"
  /\ UNCHANGED <<state, running, reconnect_attempts, heartbeat_task,
                 receive_task, hbloop, serverVars>>

InitExtra ==
  InitLocks /\ InitSweep /\ InitDebounce /\ InitWsClient /\ InitCovered

\* The callers connect, send heartbeats, fall silent and disconnect while the
\* monitor makes one sweep.
NextSweep ==
  \/ \E s \in Sockets :
       \/ Churn(s)
       \/ Receive(s, [NoMsg EXCEPT !.kind = "heartbeat"])
       \/ Expire(s)
  \/ \E stale \in UNION {ListsOf(S) : S \in SUBSET Persons} : SweepCheck(stale)
  \/ SweepEvict
  \/ \E p \in Persons, exc \in {"RuntimeError", "WebSocketDisconnect"} :
       SendCall(p, exc)

(***************************************************************************)
(* The rate limiter of the LLM client: RateLimiter                         *)
(*                                                                         *)
(* A token is TokenUnit units, and the clock counts the ticks in which the *)
(* bucket refills one unit (rate = requests_per_minute / 60 per second, so *)
(* a tick is 60 / (requests_per_minute * TokenUnit) seconds).              *)
(***************************************************************************)
Acquirers == 1..NumAcquirers

\* asyncio.Lock(): not held
Unlocked == 0

\* self.max_tokens = requests_per_minute
MaxTokens == RequestsPerMinute * TokenUnit

Min(a, b) == IF a <= b THEN a ELSE b

\* self.tokens = min(self.max_tokens, self.tokens + elapsed * self.rate)
RefilledTwice(t, elapsed) == Min(MaxTokens, t + 2 * elapsed)

Refilled(t, elapsed) == Min(MaxTokens, t + elapsed)

\* `if self.tokens >= 1`
HasTokenIfAny(t) == t > 0

HasToken(t) == t >= TokenUnit

\* One pass of the `while True` body by acquirer a, which holds the lock: the
\* bucket is refilled for the time since last_update; with a token in it the
\* token is taken and acquire returns, releasing the lock; else the acquirer
\* sleeps (1 - tokens) / rate, still holding the lock.
LoopBody(a) ==
  LET t == Refilled(tokens, clock - last_update)
  IN /\ last_update' = clock
     /\ IF HasToken(t)
          THEN /\ tokens' = t - TokenUnit
               /\ rate_lock' = Unlocked
               /\ apc' = [apc EXCEPT ![a] = "done"]
               /\ acquired' = acquired + 1
               /\ UNCHANGED awake
          ELSE /\ tokens' = t
               /\ rate_lock' = a
               /\ apc' = [apc EXCEPT ![a] = "sleep"]
               /\ awake' = [awake EXCEPT ![a] = clock + (TokenUnit - t)]
               /\ UNCHANGED acquired

\* acquire() is called: `async with self._lock` enters at once when the lock
\* is free and nobody waits for it, else the caller waits for it.
AcquireCall(a) ==
  /\ apc[a] = "idle"
  /\ IF rate_lock = Unlocked /\ \A b \in Acquirers : apc[b] # "lock"
       THEN LoopBody(a)
       ELSE /\ apc' = [apc EXCEPT ![a] = "lock"]
            /\ UNCHANGED <<tokens, last_update, rate_lock, awake, acquired>>
  /\ UNCHANGED <<clock, casVars, coordVars, connVars, cycleVars, broadcastVars,
                 gatewayVars, extraVars>>

\* The lock was released and a waiting caller gets it.
AcquireLocked(a) ==
  /\ apc[a] = "lock"
  /\ rate_lock = Unlocked
  /\ LoopBody(a)
  /\ UNCHANGED <<clock, casVars, coordVars, connVars, cycleVars, broadcastVars,
                 gatewayVars, extraVars>>

\* asyncio.sleep(wait_time) returns, not before wait_time has passed.
AcquireWake(a) ==
  /\ apc[a] = "sleep"
  /\ clock >= awake[a]
  /\ LoopBody(a)
  /\ UNCHANGED <<clock, casVars, coordVars, connVars, cycleVars, broadcastVars,
                 gatewayVars, extraVars>>

\* time.monotonic() advances.
Tick ==
  /\ clock < MaxTime
  /\ clock' = clock + 1
  /\ UNCHANGED <<tokens, last_update, rate_lock, apc, awake, acquired,
                 casVars, coordVars, connVars, cycleVars, broadcastVars,
                 gatewayVars, extraVars>>

\* RateLimiter.__init__: a full bucket.
InitLimiter ==
  /\ tokens = MaxTokens
  /\ last_update = 0
  /\ clock = 0
  /\ rate_lock = Unlocked
  /\ apc = [a \in Acquirers |-> "idle"]
  /\ awake = [a \in Acquirers |-> 0]
  /\ acquired = 0

NextLimiter ==
  \/ \E a \in Acquirers : AcquireCall(a)
  \/ \E a \in Acquirers : AcquireLocked(a)
  \/ \E a \in Acquirers : AcquireWake(a)
  \/ Tick

(***************************************************************************)
(* The gateway of the LLM client: ClaudeClient._call_api and extract_info  *)
(***************************************************************************)

\* What the provider does with one request.
ProviderOutcomes == {"success", "rate_limit", "api_error"}

\* The text of a provider response, by what json.loads and the checks of
\* extract_info make of its body: not JSON; JSON that is not an object; an
\* object with an unknown disaster_type or severity; an object with a field
\* of the wrong type or range; an object that fits ExtractedInfo. The body
\* may stand in a markdown code block. length is len(response).
Bodies == {"not_json", "non_object", "bad_enum", "bad_field", "valid"}
Responses ==
  [body : Bodies, fenced : BOOLEAN, length : {NotesPrefix - 1, NotesPrefix + 1}]
NoResponse == [body |-> "none", fenced |-> FALSE, length |-> 0]

NoExtraction == [raised |-> "none", confidence |-> 0, notes |-> 0, degraded |-> FALSE]

\* wait_time = 2 ** attempt
BackoffConstant(attempt) == 1

Backoff(attempt) == 2 ^ attempt

\* _parse_json_response: the lines of a code block's fence are removed, the
\* rest goes to json.loads.
Unfenced(response) == response.body

\* The exception raised by the try block of extract_info, or "none":
\* json.loads raises JSONDecodeError; data.get on a value that is not a dict
\* raises AttributeError; DisasterType(...) and SeverityLevel(...) raise
\* ValueError; ExtractedInfo(**data) raises ValidationError.
RaisedByParse(response) ==
  LET body == Unfenced(response)
  IN CASE body = "not_json" -> "JSONDecodeError"
       [] body = "non_object" -> "AttributeError"
       [] body = "bad_enum" -> "ValueError"
       [] body = "bad_field" -> "ValidationError"
       [] OTHER -> "none"

\* except (json.JSONDecodeError, ValueError): JSONDecodeError and pydantic's
\* ValidationError are subclasses of ValueError.
CaughtByExtract(exc) == exc \in {"JSONDecodeError", "ValueError", "ValidationError"}

\* What extract_info does with the response of _call_api: the parsed info
\* (its confidence is the response's, here 1), or the degraded info with
\* confidence 0.0 and notes that hold response[:500], or the exception.
ExtractOutcome(response) ==
  LET exc == RaisedByParse(response)
  IN IF exc = "none"
       THEN [raised |-> "none", confidence |-> 1, notes |-> 0, degraded |-> FALSE]
     ELSE IF CaughtByExtract(exc)
       THEN [raised |-> "none", confidence |-> 0,
             notes |-> Min(response.length, NotesPrefix), degraded |-> TRUE]
     ELSE [NoExtraction EXCEPT !.raised = exc]

\* `await self.rate_limiter.acquire()` has returned; the first request is sent.
GatewayAcquired ==
  /\ gpc = "acquire"
  /\ gpc' = "request"
  /\ gacquires' = gacquires + 1
  /\ UNCHANGED <<gattempt, goutcomes, gwaits, gapi, gresponse, gresult,
                 casVars, coordVars, connVars, cycleVars, broadcastVars,
                 limiterVars, extraVars>>

\* messages.create of attempt `attempt` ends: the text is returned; or
\* RateLimitError, and the call sleeps 2 ** attempt; or another APIError,
\* which is re-raised on the last attempt and slept on otherwise.
ProviderReply(outcome, response) ==
  /\ gpc = "request"
  /\ goutcomes' = Append(goutcomes, outcome)
  /\ CASE outcome = "success" ->
            /\ gresponse' = response
            /\ gapi' = "returned"
            /\ gpc' = "parse"
            /\ UNCHANGED <<gwaits, gresult>>
       [] outcome = "api_error" /\ gattempt = MaxApiRetries - 1 ->
            /\ gapi' = "raised"
            /\ gresult' = [NoExtraction EXCEPT !.raised = "APIError"]
            /\ gpc' = "done"
            /\ UNCHANGED <<gwaits, gresponse>>
       [] OTHER ->
            /\ gwaits' = Append(gwaits, Backoff(gattempt))
            /\ gpc' = "backoff"
            /\ UNCHANGED <<gapi, gresponse, gresult>>
  /\ UNCHANGED <<gattempt, gacquires,
                 casVars, coordVars, connVars, cycleVars, broadcastVars,
                 limiterVars, extraVars>>

\* The backoff sleep returns: the next attempt, or, after the last one,
\* RuntimeError("Max retries exceeded").
BackoffDone ==
  /\ gpc = "backoff"
  /\ gattempt' = gattempt + 1
  /\ IF gattempt + 1 < MaxApiRetries
       THEN /\ gpc' = "request"
            /\ UNCHANGED <<gapi, gresult>>
       ELSE /\ gapi' = "raised"
            /\ gresult' = [NoExtraction EXCEPT !.raised = "RuntimeError"]
            /\ gpc' = "done"
  /\ UNCHANGED <<goutcomes, gwaits, gresponse, gacquires,
                 casVars, coordVars, connVars, cycleVars, broadcastVars,
                 limiterVars, extraVars>>

\* extract_info parses the response and returns or raises.
ExtractParse ==
  /\ gpc = "parse"
  /\ gresult' = ExtractOutcome(gresponse)
  /\ gpc' = "done"
  /\ UNCHANGED <<gattempt, goutcomes, gwaits, gapi, gresponse, gacquires,
                 casVars, coordVars, connVars, cycleVars, broadcastVars,
                 limiterVars, extraVars>>

\* No call of the client is running.
InitGateway ==
  /\ gpc = "idle"
  /\ gattempt = 0
  /\ goutcomes = <<>>
  /\ gwaits = <<>>
  /\ gapi = "none"
  /\ gresponse = NoResponse
  /\ gresult = NoExtraction
  /\ gacquires = 0

NextGateway ==
  \/ GatewayAcquired
  \/ \E outcome \in ProviderOutcomes, response \in Responses :
       ProviderReply(outcome, response)
  \/ BackoffDone
  \/ ExtractParse

(***************************************************************************)
(* The recompute cycle: CallProcessor._update_summary, with                *)
(* ClaudeClient.generate_summary, SummaryRepository.update_with_retry and  *)
(* ConnectionManager.broadcast                                             *)
(*                                                                         *)
(* In this part the narrative of a summary is tagged with what produced it *)
(* and its totals are total_callers; active_callers and the injury,        *)
(* fatality and trapped sums are assigned in the same statements.          *)
(***************************************************************************)

\* The narrative fields built from a parsed provider response.
ProviderNarrative == NumWriters + 1

NoLog == [summarize |-> "none", cas |-> "none", raised |-> FALSE]
NoBroadcast ==
  [begun |-> 0, returned |-> 0, snapshot |-> {}, message |-> NoDoc,
   attempts |-> [s \in Sockets |-> 0], failed |-> 0]

\* get_all_with_extracted_info(): find({"extracted_info": {"$ne": None}}).
WithExtractedInfo ==
  {p \in Persons : records[p].exists /\ records[p].extraction_history > 0}

\* total_callers = len(persons)
RawTotals(persons) == Cardinality(persons)

\* generate_summary, response parsed: DisasterSummary(version=current.version,
\* totals from persons, narrative fields from the response).
ParsedSummary(current, persons) ==
  [version |-> current.version, narrative |-> ProviderNarrative,
   totals |-> RawTotals(persons), exists |-> TRUE]

\* generate_summary, response not parsed: current_summary with its totals
\* assigned from persons is returned; nothing is raised.
RefreshedSummary(current, persons) ==
  [current EXCEPT !.totals = RawTotals(persons)]

SnapshotOfOpen ==
  {connections[p] : p \in {q \in Persons : connections[q] # None
                                             /\ sock[connections[q]] = "open"}}

\* list(self._connections.items()): the Connections registered at this moment.
Snapshot == {connections[p] : p \in {q \in Persons : connections[q] # None}}

\* persons = await get_all_with_extracted_info(); `if not persons: return`.
UpdateGetPersons ==
  /\ upc = "get_persons"
  /\ upersons' = WithExtractedInfo
  /\ upc' = IF WithExtractedInfo = {} THEN "done" ELSE "get_summary"
  /\ UNCHANGED <<ucurrent, uupdated, uexpected, uattempt, ulog, broadcastVars,
                 casVars, coordVars, connVars, clientVars>>

\* current_summary = await summary_repo.get(): find_one.
UpdateGetSummary ==
  /\ upc = "get_summary"
  /\ IF stored.exists
       THEN /\ ucurrent' = stored
            /\ upc' = "summarize"
       ELSE /\ upc' = "get_summary_insert"
            /\ UNCHANGED ucurrent
  /\ UNCHANGED <<upersons, uupdated, uexpected, uattempt, ulog, broadcastVars,
                 casVars, coordVars, connVars, clientVars>>

\* get(): insert_one(default). This get is outside the try of _update_summary:
\* DuplicateKeyError leaves _update_summary.
UpdateGetSummaryInsert ==
  /\ upc = "get_summary_insert"
  /\ IF stored.exists
       THEN /\ upc' = "done"
            /\ ulog' = [ulog EXCEPT !.raised = TRUE]
            /\ UNCHANGED <<stored, ucurrent>>
       ELSE /\ stored' = DefaultSummary
            /\ ucurrent' = DefaultSummary
            /\ upc' = "summarize"
            /\ UNCHANGED ulog
  /\ UNCHANGED <<upersons, uupdated, uexpected, uattempt, broadcastVars,
                 wpc, wcurrent, wattempt, wresult, casLog, coordVars, connVars, clientVars>>

\* updated_summary = await generate_summary(persons, current_summary). Every
\* person read has extracted info, so there is a report and the provider is
\* called; the call returns a response that parses ("ok") or not
\* ("parse_error"), or raises after its retries ("provider_error"), which the
\* except of _update_summary catches.
Summarize(outcome) ==
  /\ upc = "summarize"
  /\ ulog' = [ulog EXCEPT !.summarize = outcome]
  /\ CASE outcome = "ok" ->
            /\ uupdated' = ParsedSummary(ucurrent, upersons)
            /\ upc' = "retry_get"
            /\ UNCHANGED ucurrent
       [] outcome = "parse_error" ->
            /\ ucurrent' = RefreshedSummary(ucurrent, upersons)
            /\ uupdated' = RefreshedSummary(ucurrent, upersons)
            /\ upc' = "retry_get"
       [] OTHER ->
            /\ upc' = "done"
            /\ UNCHANGED <<ucurrent, uupdated>>
  /\ uattempt' = 0
  /\ UNCHANGED <<upersons, uexpected, broadcastVars, casVars, coordVars, connVars, clientVars>>

\* update_with_retry: current = await self.get(). The document exists since
\* the get of _update_summary, and no code deletes it.
RetryGet ==
  /\ upc = "retry_get"
  /\ stored.exists
  /\ uexpected' = stored.version
  /\ upc' = "update"
  /\ UNCHANGED <<upersons, ucurrent, uupdated, uattempt, ulog, broadcastVars,
                 casVars, coordVars, connVars, clientVars>>

\* update(updated, expected_version=current.version): find_one_and_update. On
\* a hit update_with_retry returns the saved summary and, with no await in
\* between, broadcast_summary takes its snapshot and starts the first send; a
\* broadcast over an empty snapshot returns 0 at once.
UpdateFindOneAndUpdate ==
  /\ upc = "update"
  /\ IF MatchesFilter(stored, uexpected)
       THEN /\ stored' = SetDocument(uupdated, uexpected)
            /\ uupdated' = SetDocument(uupdated, uexpected)
            /\ ulog' = [ulog EXCEPT !.cas = "applied"]
            /\ bremaining' = Snapshot
            /\ bcount' = 0
            /\ blog' = [begun |-> blog.begun + 1,
                        returned |-> blog.returned + (IF Snapshot = {} THEN 1 ELSE 0),
                        snapshot |-> Snapshot,
                        message |-> SetDocument(uupdated, uexpected),
                        attempts |-> [s \in Sockets |-> 0], failed |-> 0]
            /\ upc' = IF Snapshot = {} THEN "done" ELSE "broadcast"
       ELSE /\ upc' = "update_check"
            /\ UNCHANGED <<stored, uupdated, ulog, broadcastVars>>
  /\ UNCHANGED <<upersons, ucurrent, uexpected, uattempt,
                 wpc, wcurrent, wattempt, wresult, casLog, coordVars, connVars, clientVars>>

\* update_with_retry without the `raise` of the last attempt.
UpdateMissedCheckUnbounded ==
  /\ upc = "update_check"
  /\ stored.exists
  /\ upc' = "retry_get"
  /\ uattempt' = uattempt + 1
  /\ UNCHANGED <<upersons, ucurrent, uupdated, uexpected, ulog, broadcastVars,
                 casVars, coordVars, connVars, clientVars>>

\* update(): result is None and find_one finds the document:
\* OptimisticLockError. update_with_retry loops, or raises on the last
\* attempt; the except of _update_summary catches it.
UpdateMissedCheck ==
  /\ upc = "update_check"
  /\ stored.exists
  /\ IF uattempt = MaxRetries - 1
       THEN /\ upc' = "done"
            /\ ulog' = [ulog EXCEPT !.cas = "exhausted"]
            /\ UNCHANGED uattempt
       ELSE /\ upc' = "retry_get"
            /\ uattempt' = uattempt + 1
            /\ UNCHANGED ulog
  /\ UNCHANGED <<upersons, ucurrent, uupdated, uexpected, broadcastVars,
                 casVars, coordVars, connVars, clientVars>>

\* broadcast(): `await conn.websocket.send_json(message_data)` for the next
\* connection c of the snapshot returns (sent += 1) or raises (logged); the
\* loop goes on, or broadcast returns `sent` after the last connection.
BroadcastSend(c) ==
  /\ upc = "broadcast"
  /\ c \in bremaining
  /\ bremaining' = bremaining \ {c}
  /\ bcount' = bcount + (IF sock[c] = "open" THEN 1 ELSE 0)
  /\ blog' = [blog EXCEPT !.attempts[c] = @ + 1,
                          !.failed = @ + (IF sock[c] = "open" THEN 0 ELSE 1),
                          !.returned = @ + (IF bremaining = {c} THEN 1 ELSE 0)]
  /\ upc' = IF bremaining = {c} THEN "done" ELSE "broadcast"
  /\ UNCHANGED <<upersons, ucurrent, uupdated, uexpected, uattempt, ulog,
                 casVars, coordVars, connVars, clientVars>>

\* No _update_summary call is running.
InitService ==
  /\ upc = "idle"
  /\ upersons = {}
  /\ ucurrent = NoDoc
  /\ uupdated = NoDoc
  /\ uexpected = 0
  /\ uattempt = 0
  /\ ulog = NoLog
  /\ bremaining = {}
  /\ bcount = 0
  /\ blog = NoBroadcast

\* A person's record after a first extraction was stored.
RecordWithInfo ==
  [exists |-> TRUE, transcript_chunks |-> << <<"a">> >>,
   extraction_history |-> 1, is_active |-> TRUE]

\* The registry when the sessions in ss have connected and wait in their
\* receive loops.
ConnectedInit(ss) ==
  /\ connections = [p \in Persons |->
                      IF \E s \in ss : PersonOf(s) = p
                        THEN CHOOSE s \in ss : PersonOf(s) = p ELSE None]
  /\ lock = None
  /\ sock = [s \in Sockets |-> IF s \in ss THEN "open" ELSE "new"]
  /\ chunk_buffer = [s \in Sockets |-> <<>>]
  /\ last_heartbeat = [s \in Sockets |-> "connect"]
  /\ hpc = [s \in Sockets |-> IF s \in ss THEN "recv" ELSE "new"]
  /\ frame = [s \in Sockets |-> NoFrame]
  /\ sent = NoSend
  /\ msgs = 0

\* _update_summary has just been called by a debounce cycle.
CycleInit ==
  /\ upc = "get_persons"
  /\ upersons = {}
  /\ ucurrent = NoDoc
  /\ uupdated = NoDoc
  /\ uexpected = 0
  /\ uattempt = 0
  /\ ulog = NoLog
  /\ bremaining = {}
  /\ bcount = 0
  /\ blog = NoBroadcast

\* A recompute starts: some records hold extracted info, the summary document
\* is absent or was left by an earlier run, two callers are connected.
InitRecompute ==
  /\ InitCAS
  /\ InitCoord
  /\ records \in [Persons -> {NoRecord, RecordWithInfo}]
  /\ ConnectedInit({"s1", "s3"})
  /\ CycleInit
  /\ InitLimiter
  /\ InitGateway
  /\ InitExtra

\* The first recompute starts before any caller has connected.
InitBroadcast ==
  /\ InitStore
  /\ InitCoord
  /\ records \in [Persons -> {NoRecord, RecordWithInfo}]
  /\ ConnectedInit({})
  /\ CycleInit
  /\ InitLimiter
  /\ InitGateway
  /\ InitExtra

\* The steps of one _update_summary call.
CycleStep ==
  \/ UpdateGetPersons
  \/ UpdateGetSummary
  \/ UpdateGetSummaryInsert
  \/ \E outcome \in {"ok", "parse_error", "provider_error"} : Summarize(outcome)
  \/ RetryGet
  \/ UpdateFindOneAndUpdate
  \/ UpdateMissedCheck
  \/ \E c \in Sockets : BroadcastSend(c)

\* One recompute cycle next to other writers of the summary document, as many
\* as update_with_retry makes attempts.
NextRecompute ==
  \/ CycleStep
  \/ \E w \in 1..MaxRetries : WriterStep(w)

\* One recompute cycle next to one other writer, while callers come and go.
NextBroadcast ==
  \/ CycleStep
  \/ WriterStep(1)
  \/ \E s \in Sockets : Churn(s)

(***************************************************************************)
(* Debounced cycles: handler tasks persist changes to caller records and   *)
(* call _schedule_summary_update; the call that finds the flag clear       *)
(* sleeps, runs _update_summary and clears the flag in its finally block.  *)
(* The flag is set from the locked section on, so one _update_summary call *)
(* runs at a time.                                                         *)
(***************************************************************************)

\* A caller's record after get_or_create and add_transcript_chunk, before
\* any extraction was stored.
RecordNoInfo == [RecordWithInfo EXCEPT !.extraction_history = 0]

\* Task t has persisted a change and not yet made the call that follows it.
Owes(t) == \E c \in changes : c.task = t /\ c.call = tcalls[t]

\* The _update_summary call that runs, or ran last, was made by the call of
\* _schedule_summary_update that task t is in.
ThisCall(t) == ucall.task = t /\ ucall.call = tcalls[t]

\* _extract_and_update: `await update_extracted_info(person_id, extracted_info)`
\* by the handler task t for caller p; the call of _schedule_summary_update
\* comes next in that task.
StoreInfo(t, p) ==
  /\ tpc[t] = "idle"
  /\ tcalls[t] < MaxCalls
  /\ ~Owes(t)
  /\ records[p].exists
  /\ records[p].extraction_history = 0
  /\ records' = [records EXCEPT ![p].extraction_history = @ + 1]
  /\ changes' = changes \cup {[person |-> p, task |-> t, call |-> tcalls[t]]}
  /\ UNCHANGED <<connections, lock, sock, chunk_buffer, last_heartbeat, hpc,
                 frame, sent, msgs, casVars, coordVars, cycleVars,
                 broadcastVars, limiterVars, gatewayVars, lockVars, wsClientVars,
                 registryVars, ucall, covered>>

\* `await self._schedule_summary_update()` after the change was persisted.
ScheduleCall(t) == Owes(t) /\ ScheduleEnter(t)

\* `await self._update_summary()` inside the try: the call starts with fresh
\* locals. `after` keeps how the CAS of the call before it ended.
UpdateCall(t) ==
  /\ tpc[t] = "recompute"
  /\ upc \in {"idle", "done"}
  /\ ~ThisCall(t)
  /\ ucall' = [task |-> t, call |-> tcalls[t], after |-> ulog.cas]
  /\ upc' = "get_persons"
  /\ upersons' = {}
  /\ ucurrent' = NoDoc
  /\ uupdated' = NoDoc
  /\ uexpected' = 0
  /\ uattempt' = 0
  /\ ulog' = NoLog
  /\ UNCHANGED <<broadcastVars, casVars, coordVars, connVars, limiterVars,
                 gatewayVars, lockVars, wsClientVars, registryVars, changes, covered>>

\* _update_summary has returned or raised: the finally block of
\* _schedule_summary_update clears the flag.
CycleReturn(t) == upc = "done" /\ ThisCall(t) /\ RecomputeDone(t)

\* Another process updates the summary document, one update_with_retry call
\* after the other.
OtherWriterStep(w) ==
  /\ \A v \in 1..(w - 1) : wpc[v] = "done"
  /\ WriterStep(w)

\* A first run: every caller has a record without extracted info, one
\* caller is connected, no summary document exists.
InitCycles ==
  /\ InitStore
  /\ InitCoord
  /\ records = [p \in Persons |-> RecordNoInfo]
  /\ ConnectedInit({"s1"})
  /\ InitService
  /\ InitLimiter
  /\ InitGateway
  /\ InitExtra

\* Debounce cycles one after the other, next to another writer of the summary
\* document that makes as many updates as update_with_retry makes attempts.
NextCycles ==
  \/ \E t \in Tasks, p \in Persons : StoreInfo(t, p)
  \/ \E t \in Tasks : ScheduleCall(t)
  \/ \E t \in Tasks : SleepDone(t)
  \/ \E t \in Tasks : UpdateCall(t)
  \/ CycleStep
  \/ \E t \in Tasks : CycleReturn(t)
  \/ \E w \in 1..MaxRetries : OtherWriterStep(w)

\* update() is called by each writer with an expected version of its own
\* (0 is `summary.version - 1` of a new DisasterSummary), on a collection that
\* holds no document or a document at some version.
InitUpdate ==
  /\ stored \in {NoDoc} \cup
        {[DefaultSummary EXCEPT !.version = v] : v \in 1..MaxStoredVersion}
  /\ wpc = [w \in Writers |-> "update"]
  /\ wcurrent \in [Writers -> {[DefaultSummary EXCEPT !.version = v] :
                                 v \in 0..MaxStoredVersion}]
  /\ wattempt = [w \in Writers |-> 0]
  /\ wresult = [w \in Writers |-> "none"]
  /\ casLog = {}
  /\ InitCoord /\ InitConn /\ InitService /\ InitLimiter /\ InitGateway
  /\ InitExtra

\* The writes of the writers, with the retries of update_with_retry.
NextUpdate ==
  \E w \in Writers :
    \/ FindOneAndUpdate(w)
    \/ UpdateMissed(w)
    \/ UpdateInsert(w)
    \/ GetFind(w)

Init ==
  InitStore /\ InitCoord /\ InitConn /\ InitService /\ InitLimiter /\ InitGateway
    /\ InitExtra

\* The writers start on a store that an earlier run may have left.
InitWriters ==
  InitCAS /\ InitCoord /\ InitConn /\ InitService /\ InitLimiter /\ InitGateway
    /\ InitExtra

SpecCAS == InitWriters /\ [][NextCAS]_vars

SpecCoord == Init /\ [][NextCoord]_vars

Spec == Init /\ [][NextConn]_vars

SpecCall == Init /\ [][NextCall]_vars

SpecRecompute == InitRecompute /\ [][NextRecompute]_vars

SpecBroadcast == InitBroadcast /\ [][NextBroadcast]_vars

\* One sweep of the heartbeat monitor.
SpecSweep == Init /\ [][NextSweep]_vars

\* Tasks at the locks.
SpecLocks == Init /\ [][NextLocks]_vars

\* Writes on a collection that may hold no document.
SpecUpdate == InitUpdate /\ [][NextUpdate]_vars

\* Debounced cycles next to another writer of the summary document.
SpecCycles == InitCycles /\ [][NextCycles]_vars

\* The same, where every call made goes on: the call that follows a persisted
\* change is made, the sleep returns, each await of _update_summary returns
\* and the finally block runs. New changes and the other writer are under
\* no obligation.
SpecCyclesFair ==
  /\ SpecCycles
  /\ WF_vars(CycleStep)
  /\ \A t \in Tasks :
       /\ WF_vars(ScheduleCall(t))
       /\ WF_vars(SleepDone(t))
       /\ WF_vars(UpdateCall(t))
       /\ WF_vars(CycleReturn(t))

\* The limiter alone, with a full bucket.
InitAcquire ==
  InitStore /\ InitCoord /\ InitConn /\ InitService /\ InitLimiter /\ InitGateway
    /\ InitExtra

SpecLimiter == InitAcquire /\ [][NextLimiter]_vars

\* extract_info has been called and waits for its token.
InitExtract ==
  /\ InitStore /\ InitCoord /\ InitConn /\ InitService /\ InitLimiter
  /\ InitExtra
  /\ gpc = "acquire"
  /\ gattempt = 0
  /\ goutcomes = <<>>
  /\ gwaits = <<>>
  /\ gapi = "none"
  /\ gresponse = NoResponse
  /\ gresult = NoExtraction
  /\ gacquires = 0

SpecGateway == InitExtract /\ [][NextGateway]_vars

\* Every provider request and every sleep of the gateway ends.
SpecGatewayFair == SpecGateway /\ WF_vars(NextGateway)

\* Every send_json call of a broadcast returns or raises.
SpecBroadcastFair ==
  SpecBroadcast /\ WF_vars(\E c \in Sockets : BroadcastSend(c))

\* One client object: the application connects and disconnects, the server
\* closes connections, the loops of the client run.
NextClient ==
  \/ UserConnect
  \/ \E ok \in BOOLEAN : UserConnectDone(ok)
  \/ ServerClose
  \/ DisconnectBegin
  \/ DisconnectReceive
  \/ DisconnectClose
  \/ \E r \in ClientLoops :
       \/ ReceiveLoopTop(r)
       \/ ReceiveLoopClosed(r)
       \/ ReplacedClose(r)
       \/ ReconnectConnect(r)
       \/ \E ok \in BOOLEAN : ReconnectDone(r, ok)
       \/ HeartbeatWake(r)

SpecClient == Init /\ [][NextClient]_vars

(***************************************************************************)
(* Claims on the summary store (checked under SpecCAS)                     *)
(***************************************************************************)
Tried(w, n) == \E e \in casLog : e.writer = w /\ e.expected = n
Won(w, n) == [writer |-> w, expected |-> n, ok |-> TRUE] \in casLog
Lost(w, n) == [writer |-> w, expected |-> n, ok |-> FALSE] \in casLog
Participants == {w \in Writers : wpc[w] # "idle"}

\* C4: every step that changes the stored summary is the write of a writer
\* whose expected version equals the stored version at that moment, and it
\* raises the version by exactly 1; a write with another expected version
\* changes nothing; the stored version never decreases.
C4_VersionedWrites ==
  [][ /\ stored.exists => (stored'.exists /\ stored'.version >= stored.version)
      /\ (stored.exists /\ stored' # stored) =>
            \E w \in Writers :
              /\ wpc[w] = "update" /\ wresult'[w] = "ok"
              /\ wcurrent[w].version = stored.version
              /\ stored' = WriterSummary(w, stored.version + 1)
      /\ \A w \in Writers :
            (wpc[w] = "update" /\ wpc'[w] # "update"
               /\ wcurrent[w].version # stored.version) => stored' = stored
    ]_vars

\* C4 witness: one write was applied and another, with a stale expected
\* version, was refused.
C4_Witness ==
  \E a, b \in casLog : a.ok /\ ~b.ok /\ stored.version = a.expected + 1

\* C5: two writers that both read version n and both attempt CAS(n): exactly
\* one wins (n+1), the other gets the version conflict, re-reads n+1, retries
\* and wins (n+2); no two writes ever win with the same expected version, and
\* the stored summary always holds the fields of one single write.
C5_TwoWriters ==
  /\ \A a, b \in casLog : (a.ok /\ b.ok /\ a.expected = b.expected) => a = b
  /\ stored.narrative = stored.totals
  /\ \A a, b \in Writers : \A n \in 1..(MaxStoredVersion + NumWriters) :
       ( /\ a # b /\ Participants = {a, b}
         /\ Tried(a, n) /\ Tried(b, n) ) =>
           /\ ~(Won(a, n) /\ Won(b, n))
           /\ (wpc[a] = "done" /\ wpc[b] = "done") =>
                 /\ \/ Won(a, n) /\ Lost(b, n) /\ Won(b, n + 1)
                    \/ Won(b, n) /\ Lost(a, n) /\ Won(a, n + 1)
                 /\ wresult[a] = "ok" /\ wresult[b] = "ok"
                 /\ stored.version = n + 2

\* C5 witness: both writers tried at n, one lost and has won its retry at n+1.
C5_Witness ==
  \E a, b \in Writers : \E n \in 1..(MaxStoredVersion + NumWriters) :
    /\ a # b /\ Participants = {a, b}
    /\ Won(a, n) /\ Lost(b, n) /\ Won(b, n + 1)
    /\ wpc[a] = "done" /\ wpc[b] = "done" /\ stored.version = n + 2

(***************************************************************************)
(* Claims on the summary coordinator (checked under SpecCoord)             *)
(***************************************************************************)
InCycle == {t \in Tasks : tpc[t] \in {"sleep", "recompute"}}

\* C2: at most one task is between setting the pending flag and clearing it.
C2_OneCycleInFlight == Cardinality(InCycle) <= 1

\* C2 witness: a cycle is in its recompute while a second call has arrived
\* and returned.
C2_Witness ==
  \E t \in Tasks : tpc[t] = "recompute" /\ window.calls >= 2
                    /\ \E u \in Tasks \ {t} : tcalls[u] >= 1 /\ tpc[u] = "idle"

\* C3: the calls of one debounce window start exactly one timer, run
\* recompute at most once while the window is open, and exactly once when the
\* window has ended; a call that finds the flag set changes neither the flag
\* nor its own position (it returns at once).
C3_OneRecomputePerWindow ==
  /\ window.state # "none" => window.timers = 1
  /\ window.recomputes <= 1
  /\ window.state = "done" => window.recomputes = 1
  /\ window.state = "open" => pending_summary_update

\* C3 witness: a window that took three calls has ended with one recompute.
C3_Witness ==
  window.state = "done" /\ window.calls >= 3 /\ window.recomputes = 1

\* C6 (as claimed): the flag is never set with no cycle in flight, so a
\* cancelled cycle leaves the coordinator Idle.
C6_NoStuckPending == pending_summary_update => InCycle # {}

(***************************************************************************)
(* Claims on connections and chunk handling (checked under Spec)           *)
(***************************************************************************)
\* The handler of socket s is inside process_message or the except block.
Handling(s) == hpc[s] \notin {"new", "register", "recv", "cleanup", "done"}

\* The session of socket s is connected and has not left its receive loop.
InSession(s) == hpc[s] \notin {"new", "register", "cleanup", "done"}

\* The step in which the handler of s finishes the message it was handling.
HandlingEnds(s) == Handling(s) /\ hpc'[s] = "recv"

HasNonBlank(t) == \E i \in 1..Len(t) : t[i] # SP

\* C1 (as claimed): once a replaced session has run its cleanup while the
\* session that replaced it is still open, the registry holds the Connection
\* of the newer socket for the person.
C1_NewestStaysRegistered ==
  \A s \in Sockets : \A e \in Earlier(s) :
    (PersonOf(e) = PersonOf(s) /\ hpc[e] = "done"
       /\ sock[s] = "open" /\ InSession(s))
      => connections[PersonOf(s)] = s

\* C7 (as claimed): at most one inbound message of a person is being
\* processed at any moment, reconnects included.
C7_OneMessagePerPerson ==
  \A p \in Persons :
    Cardinality({s \in Sockets : PersonOf(s) = p /\ Handling(s)}) <= 1

\* C8 (as claimed): the error message that follows an exception in the
\* handling of a message of an open session reaches a socket of that caller.
C8_ErrorReachesCaller ==
  (sent.type = "error" /\ sock[sent.from] = "open")
    => (sent.to # None /\ PersonOf(sent.to) = PersonOf(sent.from))

C10_OneTriggerPerFill ==
  \A c \in Sockets :
    Cardinality({s \in Sockets :
                   /\ hpc[s] \in {"ex_get", "ex_llm", "ex_store", "ex_send",
                                  "ex_finish", "sched", "sleep", "recompute"}
                   /\ frame[s].msg.kind = "chunk" /\ ~frame[s].msg.final
                   /\ frame[s].conn = c}) <= 1

\* The characters of the first n texts, one after the other.
RECURSIVE Concat(_, _)
Concat(texts, n) ==
  IF n = 0 THEN <<>> ELSE Concat(texts, n - 1) \o texts[n]

\* t is the texts in order with one space between two neighbours.
IsSpacedJoin(t, texts) ==
  LET n == Len(texts)
      start(i) == Len(Concat(texts, i - 1)) + (i - 1)
  IN /\ Len(t) = Len(Concat(texts, n)) + (IF n = 0 THEN 0 ELSE n - 1)
     /\ \A i \in 1..n :
          /\ SubSeq(t, start(i) + 1, start(i) + Len(texts[i])) = texts[i]
          /\ i > 1 => t[start(i)] = SP

IsPrefix(a, b) == Len(a) <= Len(b) /\ SubSeq(b, 1, Len(a)) = a

\* The step in which the handler of s reads the record and passes the joined
\* transcript to extract_info.
PassesTranscript(s) == hpc[s] = "ex_get" /\ hpc'[s] = "ex_llm"

\* C11 (amended): the transcript passed to an extraction is the text of all
\* chunks stored in the person's record at that moment, in arrival order and
\* joined by single spaces (the whole record, not only the buffer); a record's
\* chunk list only grows at its end, so the input of each extraction extends
\* the input of the previous one.
C11_WholeTranscriptPassed ==
  [][ /\ \A s \in Sockets :
           PassesTranscript(s) =>
             IsSpacedJoin(frame'[s].full_transcript,
                          records[PersonOf(s)].transcript_chunks)
      /\ \A p \in Persons :
           /\ IsPrefix(records[p].transcript_chunks, records'[p].transcript_chunks)
           /\ IsPrefix(JoinTexts(records[p].transcript_chunks),
                       JoinTexts(records'[p].transcript_chunks))
    ]_vars

\* C11 witness: an extraction is running on a transcript of two stored
\* chunks, of which only the second is in the buffer.
C11_Witness ==
  \E s \in Sockets :
    /\ hpc[s] = "ex_llm" /\ frame[s].conn # None
    /\ Len(records[PersonOf(s)].transcript_chunks) = 2
    /\ records[PersonOf(s)].transcript_chunks[1] # <<>>
    /\ Len(chunk_buffer[frame[s].conn]) = 1
    /\ frame[s].full_transcript = JoinTexts(records[PersonOf(s)].transcript_chunks)

\* C11 (as claimed): the transcript passed to an extraction is the plain
\* concatenation of the stored chunk texts.
C11_PlainConcatenation ==
  [][ \A s \in Sockets :
        PassesTranscript(s) =>
          frame'[s].full_transcript =
            Concat(records[PersonOf(s)].transcript_chunks,
                   Len(records[PersonOf(s)].transcript_chunks))
    ]_vars

\* C15 (as claimed): when extract_info raises while a message of an open
\* session of caller p is handled, that step sends one error message, which
\* reaches a socket of p; nothing is persisted, no summary update is
\* scheduled, no chunk_processed follows and the handler returns into the
\* receive loop or, for a call_end, goes on to end the call.
C15_ExtractionFailureReported ==
  [][ \A s \in Sockets :
        /\ (hpc[s] = "ex_llm" /\ hpc'[s] = "ex_finish" /\ sock[s] = "open")
             => /\ sent'.type = "error" /\ sent'.from = s
                /\ sent'.to # None /\ PersonOf(sent'.to) = PersonOf(s)
                /\ records' = records
                /\ pending_summary_update' = pending_summary_update
        /\ (hpc[s] = "ex_finish" /\ hpc'[s] # "ex_finish")
             => /\ hpc'[s] \in {"recv", "end_call"}
                /\ sent'.type = "none"
                /\ records' = records
                /\ pending_summary_update' = pending_summary_update
    ]_vars

\* The step in which the receive loop of s takes a message that is not JSON
\* (the loop is left) or does not fit the envelope (an error is sent at once).
ReceivesMalformed(s) ==
  /\ hpc[s] = "recv" /\ sock[s] = "open" /\ msgs' # msgs
  /\ \/ hpc'[s] = "cleanup"
     \/ hpc'[s] = "recv" /\ sent'.from = s /\ sent'.type # "heartbeat_ack"

\* C16 (as claimed): the step that receives a malformed message of an open
\* session of caller p (text that is not JSON, JSON that does not fit the
\* envelope or has an unknown type) sends an error message to p and leaves
\* the session in its receive loop, open and registered as before; so does
\* the handling of a transcript_chunk without text or chunk_index.
C16_MalformedIsReported ==
  [][ \A s \in Sockets :
        /\ ReceivesMalformed(s)
             => /\ sent'.type = "error" /\ sent'.from = s
                /\ hpc'[s] = "recv" /\ sock'[s] = "open"
                /\ connections' = connections
        /\ (HandlingEnds(s) /\ frame[s].msg.kind = "bad_chunk")
             => /\ sent'.type = "error" /\ sent'.from = s
                /\ sock'[s] = sock[s]
                /\ connections' = connections
    ]_vars

\* The handler of s is handling a call_end.
EndingCall(s) == Handling(s) /\ frame[s].msg.kind = "call_end"

\* C23 (as claimed): a call_end of an open session is flushed through one
\* extraction exactly when the session's buffer is non-empty; the record is
\* marked inactive after that and before _schedule_summary_update is called,
\* which is the last thing the handling does; when the handling ends, the
\* session's buffer is empty and the record is inactive.
C23_CallEndInOrder ==
  [][ \A s \in Sockets :
        /\ (hpc[s] = "recv" /\ hpc'[s] \in {"ex_get", "end_call"})
             => (hpc'[s] = "ex_get") = (chunk_buffer[s] # <<>>)
        /\ (EndingCall(s) /\ hpc[s] = "ex_get" /\ hpc'[s] # "ex_get")
             => hpc'[s] = "ex_llm"
        /\ (EndingCall(s) /\ hpc[s] # "end_call" /\ hpc'[s] = "end_call")
             => frame'[s].calls = 1
        /\ (EndingCall(s) /\ hpc[s] = "end_call" /\ hpc'[s] # "end_call")
             => /\ hpc'[s] = "end_sched"
                /\ records[PersonOf(s)].exists
                     => ~records'[PersonOf(s)].is_active
        /\ (EndingCall(s) /\ HandlingEnds(s))
             => /\ hpc[s] \in {"end_sched", "end_recompute"}
                /\ chunk_buffer'[s] = <<>>
                /\ records[PersonOf(s)].exists
                     => ~records'[PersonOf(s)].is_active
    ]_vars

\* C28: when handling of a caller's call_end has finished, every chunk
\* appended to that caller's durable record has been part of the transcript
\* of at least one extract_info call, whichever connection it was received
\* on.
C28_EveryChunkExtracted ==
  [][ \A s \in Sockets :
        (EndingCall(s) /\ HandlingEnds(s))
          => covered'[PersonOf(s)] = Len(records'[PersonOf(s)].transcript_chunks)
    ]_vars

(***************************************************************************)
(* Claims on tasks, extraction effects and heartbeats (checked under       *)
(* SpecCall)                                                               *)
(***************************************************************************)

\* The debounce cycle started by a message of s is in its sleep or in
\* _update_summary: the coordinator is PendingRecompute.
InDebounceCycle(s) ==
  hpc[s] \in {"sleep", "recompute", "end_sleep", "end_recompute"}

\* C31: a debounce cycle runs as a task of its own, apart from the receive
\* loop of the connection whose message scheduled it: while the cycle sleeps
\* or recomputes, that connection, if still open, can receive and process its
\* next inbound message, for example a heartbeat.
C31_ReceiveDuringCycle ==
  \A s \in Sockets :
    (InDebounceCycle(s) /\ sock[s] = "open" /\ msgs < MaxMsgs)
      => ENABLED Receive(s, [NoMsg EXCEPT !.kind = "heartbeat"])

\* The handler task of s leaves the position pos in this step.
Leaves(s, pos) == hpc[s] = pos /\ hpc'[s] # pos

\* The handler task of s reaches the position pos in this step.
Reaches(s, pos) == hpc[s] # pos /\ hpc'[s] = pos

\* C32: for every successful extraction the ExtractedInfo is first persisted
\* (one more entry in the record's history), then chunk_processed is unicast
\* to the caller (it reaches a connection of the caller whenever the session
\* that sent the chunk is still open), then _schedule_summary_update is
\* called; the call is made for no extraction whose result was not persisted.
C32_PersistUnicastSchedule ==
  [][ \A s \in Sockets :
        /\ Reaches(s, "ex_store") => hpc[s] = "ex_llm"
        /\ Leaves(s, "ex_store")
             => /\ hpc'[s] = "ex_send"
                /\ records'[PersonOf(s)].exists
                /\ records'[PersonOf(s)].extraction_history
                     = records[PersonOf(s)].extraction_history + 1
        /\ Reaches(s, "ex_send") => hpc[s] = "ex_store"
        /\ Leaves(s, "ex_send")
             => /\ hpc'[s] = "sched"
                /\ sent'.type = "chunk_processed"
                /\ sent'.from = s
                /\ sock[s] = "open"
                     => sent'.to # None /\ PersonOf(sent'.to) = PersonOf(s)
        /\ Reaches(s, "sched") => hpc[s] = "ex_send"
        /\ Leaves(s, "sched") => hpc'[s] \in {"sleep", "recv", "end_call"}
    ]_vars

\* The handler task of s receives a heartbeat and handles it in this step.
HandlesHeartbeat(s) ==
  /\ msgs' = msgs + 1
  /\ sent'.type = "heartbeat_ack"
  /\ sent'.from = s

\* C35: handling a heartbeat of caller p updates only the last_heartbeat of
\* p's registered connection and sends exactly one heartbeat_ack, which
\* reaches p; every chunk buffer, every record, the stored summary, the
\* coordinator state, the registry and every other connection's heartbeat
\* stay as they are.
C35_HeartbeatFrame ==
  [][ \A s \in Sockets :
        HandlesHeartbeat(s)
          => /\ connections[PersonOf(s)] # None
             /\ last_heartbeat' =
                  [last_heartbeat EXCEPT ![connections[PersonOf(s)]] = "heartbeat"]
             /\ sent'.to # None
             /\ PersonOf(sent'.to) = PersonOf(s)
             /\ UNCHANGED <<chunk_buffer, records, stored, connections, sock,
                            coordVars, hpc>>
    ]_vars

\* The sequence a can be obtained from b by leaving elements out.
RECURSIVE IsSubsequence(_, _)
IsSubsequence(a, b) ==
  IF a = <<>> THEN TRUE
  ELSE IF b = <<>> THEN FALSE
  ELSE IF Head(a) = Head(b) THEN IsSubsequence(Tail(a), Tail(b))
  ELSE IsSubsequence(a, Tail(b))

\* The texts of the chunks of a buffer, in buffer order.
BufferTexts(buffer) == [i \in 1..Len(buffer) |-> buffer[i].text]

\* C36: whenever the handler of a connection is idle between two messages,
\* the connection's chunk buffer holds fewer than chunk_buffer_size chunks,
\* holds no final chunk, and its chunks are in the person's durable record,
\* in the same relative order.
C36_IdleBufferInvariant ==
  \A s \in Sockets :
    hpc[s] = "recv"
      => /\ Len(chunk_buffer[s]) < ChunkBufferSize
         /\ \A i \in 1..Len(chunk_buffer[s]) : ~chunk_buffer[s][i].final
         /\ IsSubsequence(BufferTexts(chunk_buffer[s]),
                          records[PersonOf(s)].transcript_chunks)

(***************************************************************************)
(* Claim on the rate limiter in front of the provider (checked under       *)
(* SpecGateway)                                                            *)
(***************************************************************************)

\* The requests sent to the provider so far: those that have ended and the
\* one in flight.
RequestsIssued == Len(goutcomes) + (IF gpc = "request" THEN 1 ELSE 0)

\* C33: the rate limiter gates every request sent to the provider, retries
\* included: each request attempt is preceded by a token acquisition of its
\* own, so the requests issued never outnumber the tokens acquired.
C33_EveryRequestAcquires == RequestsIssued <= gacquires

(***************************************************************************)
(* Claim on the two failure cases of a summary write (checked under        *)
(* SpecUpdate)                                                             *)
(***************************************************************************)

\* The update() call of writer w ends in this step with OptimisticLockError.
ReportsConflict(w) ==
  /\ wpc[w] = "update_check"
  /\ \/ wpc'[w] = "get"
     \/ wpc'[w] = "done" /\ wresult'[w] = "lock_error"

\* C34: a summary write distinguishes its two failure cases: when no
\* document exists the write creates one at version 1 and reports no
\* conflict; when a document exists at a version other than the expected
\* one the write reports a version conflict and leaves the document as it is.
C34_WriteDistinguishesFailures ==
  [][ \A w \in Writers :
        /\ (wpc[w] = "update_check" /\ wpc'[w] # "update_check" /\ stored.exists)
             => ReportsConflict(w) /\ stored' = stored
        /\ (wpc[w] = "update_check" /\ wpc'[w] # "update_check" /\ ~stored.exists)
             => wpc'[w] = "update_insert"
        /\ (wpc[w] = "update_insert" /\ wpc'[w] # "update_insert")
             => /\ wresult'[w] = "ok"
                /\ stored'.exists
                /\ stored'.version = 1
        /\ (wpc[w] = "update" /\ wpc'[w] = "done")
             => /\ wresult'[w] = "ok"
                /\ stored.version = wcurrent[w].version
                /\ stored'.version = stored.version + 1
    ]_vars

(***************************************************************************)
(* Claims on the debounced cycles (checked under SpecCycles and            *)
(* SpecCyclesFair)                                                         *)
(***************************************************************************)

\* The change persisted for caller p has been followed by the call of
\* _schedule_summary_update of the task that persisted it.
Called(p) == \E c \in changes : c.person = p /\ tcalls[c.task] > c.call

\* C27: no scheduled update is lost by coalescing: every persisted change
\* that is followed by a call of _schedule_summary_update is eventually read
\* by some recompute, also when the call arrives while a recompute in flight
\* has already read the records.
C27_NoUpdateLost == \A p \in Persons : Called(p) ~> (p \in upersons)

\* The successful writes of the other writer so far.
WriterApplied == Cardinality({e \in casLog : e.ok})

\* The successful writes of the coordinator so far: the document is inserted
\* at the default version and every successful write adds one to it.
CoordinatorWrites ==
  IF stored.exists
    THEN stored.version - DefaultSummary.version - WriterApplied
    ELSE 0

\* This step is a successful find_one_and_update of the coordinator.
CoordinatorWrote == upc = "update" /\ upc' \notin {"update", "update_check"}

\* C29: each successful summary write by the coordinator is followed by
\* exactly one broadcast of summary_update whose summary is the document
\* produced by that write, at the version stored right after the write; there
\* are as many broadcasts as successful writes, in write order, and no
\* connection is sent a broadcast twice.
C29_OneBroadcastPerWrite ==
  /\ [](blog.begun = CoordinatorWrites)
  /\ [](\A c \in Sockets : blog.attempts[c] <= 1)
  /\ [][ /\ CoordinatorWrote
           => /\ stored'.version = stored.version + 1
              /\ blog'.begun = blog.begun + 1
              /\ blog'.message = stored'
         /\ blog'.begun # blog.begun
           => /\ CoordinatorWrote
              /\ blog.begun > 0 => blog'.message.version > blog.message.version
     ]_vars

\* Two cycles have each written the summary, the other writer has written in
\* between, and the second broadcast has been sent.
C29_Witness ==
  /\ ucall.after = "applied"
  /\ ulog.cas = "applied"
  /\ upc = "done"
  /\ WriterApplied > 0
  /\ blog.begun = 2
  /\ blog.returned = 2
  /\ \E c \in Sockets : blog.attempts[c] = 1

\* C30: when every CAS attempt of a cycle meets a version conflict, the cycle
\* makes at most MaxRetries attempts, each after re-reading the stored
\* version, then gives up: the step that gives up writes and broadcasts
\* nothing and the exception stays inside _update_summary; no broadcast
\* begins in a step that is not a successful CAS; the call that ran the
\* cycle can then clear the flag, which leaves every task idle; a call that
\* finds the flag clear sets it and sleeps, and the task that sleeps can go
\* on to run _update_summary.
C30_ExhaustedCycleGivesUp ==
  /\ [](uattempt <= MaxRetries - 1)
  /\ [](ulog.cas = "exhausted" => upc = "done" /\ ~ulog.raised)
  /\ [](\A t \in Tasks :
          /\ (ulog.cas = "exhausted" /\ ThisCall(t) /\ tpc[t] = "recompute")
               => ENABLED CycleReturn(t)
          /\ tpc[t] = "sleep" => ENABLED SleepDone(t)
          /\ (tpc[t] = "recompute" /\ ~ThisCall(t)) => ENABLED UpdateCall(t))
  /\ [][ /\ (upc' = "update" /\ upc # "update")
           => upc = "retry_get" /\ uexpected' = stored.version
         /\ (ulog'.cas = "exhausted" /\ ulog.cas # "exhausted")
           => /\ uattempt = MaxRetries - 1
              /\ stored' = stored
              /\ blog' = blog
         /\ ulog'.cas # "applied" => blog'.begun = blog.begun
         /\ (pending_summary_update /\ ~pending_summary_update')
           => \A t \in Tasks : tpc'[t] = "idle"
         /\ (~pending_summary_update /\ tcalls' # tcalls)
           => /\ pending_summary_update'
              /\ \E t \in Tasks : tpc[t] = "idle" /\ tpc'[t] = "sleep"
     ]_vars

\* A cycle has given up after MaxRetries conflicts, and the cycle run by a
\* later call has written the summary.
C30_Witness ==
  /\ ucall.after = "exhausted"
  /\ ulog.cas = "applied"
  /\ WriterApplied = MaxRetries

(***************************************************************************)
(* Claims on the recompute cycle (checked under SpecRecompute)             *)
(***************************************************************************)
SummarizeFailed == ulog.summarize \in {"parse_error", "provider_error"}

\* C12 (as claimed): a summary_update is broadcast only by a cycle in which
\* summarize succeeded and the CAS was applied; a cycle in which summarize
\* failed or the CAS retries were exhausted broadcasts nothing.
C12_BroadcastOnlyAfterSuccess ==
  /\ blog.begun > 0 => (ulog.summarize = "ok" /\ ulog.cas = "applied")
  /\ (SummarizeFailed \/ ulog.cas = "exhausted") => blog.begun = 0

\* C13 (as claimed): after a cycle whose summarize step failed, with no other
\* writer of the summary, the stored narrative is the one read before the
\* cycle and the stored totals are those of the current record set.
C13_FailedSummarizeRefreshesTotals ==
  (upc = "done" /\ SummarizeFailed /\ \A w \in Writers : wpc[w] = "idle")
    => /\ stored.narrative = ucurrent.narrative
       /\ stored.totals = Cardinality(WithExtractedInfo)

\* C26 (as claimed): the version a recompute expects in its compare-and-swap
\* is the version of the summary it read before summarize, so a write is
\* applied only when the stored summary is still the one the written content
\* was derived from; after a version conflict the content to write is derived
\* anew from the summary that the retry read.
C26_ExpectedIsVersionRead ==
  /\ upc = "update" =>
       /\ uexpected = ucurrent.version
       /\ uupdated.version = uexpected
  /\ ulog.cas = "applied" => uupdated.version = ucurrent.version + 1

(***************************************************************************)
(* Claims on broadcast (checked under SpecBroadcast)                       *)
(***************************************************************************)
Registered == {s \in Sockets : connections[PersonOf(s)] = s}

\* C20: a broadcast takes as its snapshot the connections registered at the
\* moment it starts; whatever connects, disconnects and failed sends happen
\* while it runs, it attempts one send to each connection of the snapshot it
\* has passed and none to any other; a failed send does not end it; when it
\* has returned, every connection of the snapshot had exactly one attempt and
\* the result is the number of sends that succeeded; a broadcast that has
\* started returns.
C20_BroadcastOverSnapshot ==
  /\ [][ /\ blog'.begun # blog.begun => blog'.snapshot = Registered
         /\ blog'.begun = blog.begun => blog'.snapshot = blog.snapshot
         /\ bremaining' \subseteq blog'.snapshot
         /\ \A s \in Sockets :
              blog'.attempts[s] =
                IF s \in blog'.snapshot \ bremaining' THEN 1 ELSE 0
         /\ bcount' + blog'.failed = Cardinality(blog'.snapshot \ bremaining')
         /\ (blog'.returned = blog'.begun) = (bremaining' = {})
         /\ (upc = "broadcast" /\ blog'.failed # blog.failed) =>
              (upc' = "done") = (bremaining' = {})
       ]_vars
  /\ ((upc = "broadcast") ~> (upc = "done"))

\* C20 witness: a broadcast over two connections has returned 1: one send
\* failed, and a connection of the snapshot is no longer the registered one.
C20_Witness ==
  /\ blog.returned = 1 /\ upc = "done"
  /\ Cardinality(blog.snapshot) = 2
  /\ bcount = 1 /\ blog.failed = 1
  /\ blog.snapshot # Registered

(***************************************************************************)
(* Claims on the rate limiter (checked under SpecLimiter)                  *)
(***************************************************************************)
Returned == {a \in Acquirers : apc[a] = "done"}

\* C18: in every reachable state 0 <= tokens <= capacity; each step lets at
\* most one acquire return, and the one that returns has taken exactly one
\* token from a refilled bucket that held at least one.
C18_TokensInRange ==
  /\ [](0 <= tokens /\ tokens <= MaxTokens)
  /\ [][ /\ acquired' \in {acquired, acquired + 1}
         /\ acquired' = Cardinality(Returned')
         /\ acquired' = acquired + 1 =>
              /\ Refilled(tokens, clock - last_update) >= TokenUnit
              /\ tokens' = Refilled(tokens, clock - last_update) - TokenUnit
       ]_vars

\* C18 witness: concurrent acquires on an empty bucket: one sleeps holding
\* the lock, one waits for the lock, the others have returned with the
\* tokens of the full bucket.
C18_Witness ==
  /\ acquired = RequestsPerMinute
  /\ \E a, b \in Acquirers : apc[a] = "sleep" /\ apc[b] = "lock"
  /\ tokens < TokenUnit

\* C19: from a full bucket at time 0, the tokens handed out and those left
\* in the bucket never exceed the capacity plus what the refill has produced
\* up to the last refill, so by every time t at most C + r*t acquires have
\* returned, and an acquire beyond the capacity returns only when the refill
\* has produced its token.
C19_BurstIsDelayed ==
  /\ last_update <= clock
  /\ acquired * TokenUnit + tokens <= MaxTokens + last_update
  /\ acquired * TokenUnit <= MaxTokens + clock
  /\ acquired > RequestsPerMinute =>
       clock >= (acquired - RequestsPerMinute) * TokenUnit

\* C19 witness: a burst of one request more than the capacity: the last one
\* has returned, after the time of one token.
C19_Witness ==
  /\ acquired = RequestsPerMinute + 1
  /\ clock >= TokenUnit

(***************************************************************************)
(* Claims on the gateway (checked under SpecGateway and SpecGatewayFair)   *)
(***************************************************************************)
ProviderFailed(outcome) == outcome \in {"rate_limit", "api_error"}

AllAttemptsFailed ==
  /\ Len(goutcomes) = MaxApiRetries
  /\ \A i \in 1..MaxApiRetries : ProviderFailed(goutcomes[i])

\* C14 (as claimed): for every provider response that is not a valid
\* extraction object, extract_info does not raise and returns an info with
\* confidence 0.0 whose notes hold at most the first 500 characters of the
\* response.
C14_DegradedNeverRaises ==
  (gpc = "done" /\ gapi = "returned" /\ gresponse.body # "valid")
    => /\ gresult.raised = "none"
       /\ gresult.degraded
       /\ gresult.confidence = 0
       /\ gresult.notes = Min(gresponse.length, NotesPrefix)

\* C17: whatever the provider does, one call makes at most max_retries
\* attempts; an attempt is followed by another one only if it failed, and
\* then after a wait of 2^k seconds for attempt k; the call returns exactly
\* when an attempt succeeded, which is then the last one, and raises only
\* when max_retries attempts have all failed; it always ends.
C17_BoundedRetries ==
  /\ [](/\ Len(goutcomes) <= MaxApiRetries
        /\ Len(gwaits) >= Len(goutcomes) - 1
        /\ \A i \in 1..(Len(goutcomes) - 1) :
             ProviderFailed(goutcomes[i]) /\ gwaits[i] = 2 ^ (i - 1)
        /\ (gapi = "returned") =
             (goutcomes # <<>> /\ goutcomes[Len(goutcomes)] = "success")
        /\ gapi = "raised" => AllAttemptsFailed
        /\ (gpc = "done" /\ AllAttemptsFailed) => gapi = "raised"
        /\ gpc = "done" => gapi # "none")
  /\ <>(gpc = "done")

\* C17 witness: two failed attempts, a rate-limit error and another provider
\* error, with waits of 1 and 2 seconds, then the third attempt's response
\* is returned.
C17_Witness ==
  /\ gpc = "done" /\ gapi = "returned"
  /\ goutcomes = <<"rate_limit", "api_error", "success">>
  /\ gwaits = <<1, 2>>

(***************************************************************************)
(* Claims on the locks (checked under SpecLocks)                           *)
(***************************************************************************)
HeldBy(t) == {l \in Locks : holder[l] = t}

WaitsFor(t) == IF lkpc[t].at = "waiting" THEN {LockOf(lkpc[t].section)} ELSE {}

\* C21: no task holds more than one of the three locks, and no task waits
\* for one of them while it holds another; a task that holds a lock is
\* inside that lock's section, and whenever tasks wait for a lock the lock is
\* free or held by a task that waits for nothing, so no set of tasks can
\* wait for each other.
C21_OneLockAtATime ==
  \A t \in LockTasks :
    /\ Cardinality(HeldBy(t)) <= 1
    /\ WaitsFor(t) # {} => HeldBy(t) = {}
    /\ HeldBy(t) # {} =>
         lkpc[t].at = "inside" /\ HeldBy(t) = {LockOf(lkpc[t].section)}
    /\ \A l \in WaitsFor(t) :
         holder[l] # NoTask => WaitsFor(holder[l]) = {}

\* C21 witness: the registry lock and the rate-limiter lock are held by two
\* tasks across their awaits while a third task waits for one of them.
C21_Witness ==
  /\ holder["registry"] # NoTask
  /\ holder["rate"] # NoTask
  /\ holder["registry"] # holder["rate"]
  /\ \E t \in LockTasks : WaitsFor(t) # {}

(***************************************************************************)
(* Claims on the sweep, disconnect and send_to_person (checked under       *)
(* SpecSweep)                                                              *)
(***************************************************************************)
\* C22 (as claimed): the sweep closes a connection, and removes the entry of
\* a connection, only if it found that connection stale and the connection's
\* heartbeat has not been updated since; a connection found stale that is
\* still registered and still stale is not left when the sweep has ended.
C22_SweepOnlyStale ==
  /\ [][ \A c \in Sockets :
           /\ c \in sweep'.closed \ sweep.closed =>
                c \in sweep'.found /\ last_heartbeat[c] = "expired"
           /\ c \in sweep'.evicted \ sweep.evicted =>
                c \in sweep'.found /\ last_heartbeat[c] = "expired"
       ]_vars
  /\ [](sweep.pc = "done" =>
          \A c \in sweep.found :
            ~(connections[PersonOf(c)] = c /\ last_heartbeat[c] = "expired"))

\* C24: a call of send_to_person(p, msg) never raises; with no Connection
\* registered for p it returns False and leaves registry and sockets as they
\* are; it returns False when the send on the registered socket fails; it
\* returns True only when the send to the socket registered for p succeeded.
C24_SendNeverRaises ==
  [][ sres' # sres =>
        LET p == sres'.person
            conn == connections[p]
        IN /\ ~sres'.raised
           /\ conn = None =>
                ~sres'.returned /\ connections' = connections /\ sock' = sock
           /\ (conn # None /\ sock[conn] # "open") => ~sres'.returned
           /\ sres'.returned =>
                conn # None /\ sock[conn] = "open" /\ sres'.to = conn
    ]_vars

\* C24 witness: send_to_person has returned False for a person whose
\* registered websocket is closed: the send was tried and failed.
C24_Witness ==
  /\ sres.person # None
  /\ ~sres.returned /\ ~sres.raised
  /\ connections[sres.person] # None
  /\ sock[connections[sres.person]] = "closed"

\* The step is a call of disconnect(p), by the finally block of p's session
\* or by the sweep.
DisconnectCalled(p) ==
  \/ \E s \in Sockets : PersonOf(s) = p /\ hpc[s] = "cleanup" /\ hpc'[s] = "done"
  \/ sweep.pc = "evict" /\ sweep.person = p /\ sweep' # sweep

\* C25: disconnect(p) leaves no entry for p, whether or not there was one;
\* with no entry for p it changes nothing; a second call right after would
\* change nothing; the entry of every other person stays as it is.
C25_DisconnectIdempotent ==
  [][ \A p \in Persons :
        DisconnectCalled(p) =>
          /\ connections'[p] = None
          /\ connections[p] = None => connections' = connections
          /\ Disconnected(connections', p) = connections'
          /\ \A q \in Persons \ {p} : connections'[q] = connections[q]
    ]_vars

\* C25 witness: disconnect has been called twice for a person: by the sweep,
\* which removed the entry, then by the finally block of the closed session,
\* while another person is registered.
C25_Witness ==
  \E s \in Sockets :
    /\ s \in sweep.evicted
    /\ PersonOf(s) \in sweep.calls
    /\ hpc[s] = "done"
    /\ \E q \in Persons \ {PersonOf(s)} : connections[q] # None

(***************************************************************************)
(* Claim on the loops of the websocket client (checked under SpecClient)   *)
(***************************************************************************)
\* The loop tasks that have been created and have not finished.
RunningReceive == {l \in ClientLoops : rxloop[l] # "none"}
RunningHeartbeat == {l \in ClientLoops : hbloop[l] # "none"}

\* C37: whatever connects, server-side closes and automatic reconnects have
\* happened, at most one receive loop task and at most one heartbeat loop
\* task of the client are running; no connect or reconnect leaves a new loop
\* next to one that has not finished.
C37_OneLoopOfEachKind ==
  /\ Cardinality(RunningReceive) <= 1
  /\ Cardinality(RunningHeartbeat) <= 1

====
